---- MODULE Spec2Model ----
(***************************************************************************)
(* State-machine model of the SVG editing engine of GeoTeacherAI:          *)
(* components/DrawingCanvas.tsx (the multi-selection version, lines        *)
(* 952-1997) together with the App state that feeds it (isLoading, error,  *)
(* svgContent).                                                            *)
(*                                                                         *)
(* Conventions                                                             *)
(*  - A DOM element is an identity (a number of Ids) with a record of its  *)
(*    attributes in elems; the mounted <svg> holds the ordered list of its *)
(*    children.  Elements that are removed from the tree stay in elems as  *)
(*    long as some ref or state still points to them.                      *)
(*  - A markup string is modelled by the record of what it denotes (root   *)
(*    tag, root attributes, children); serializing drops the identities,   *)
(*    parsing creates new ones.                                            *)
(*  - Coordinates are integers that count 1/Unit of a user unit.           *)
(*    Rotations are multiples of 90 degrees so                             *)
(*    that rendering is exact.                                             *)
(*  - React state and the refs that mirror it (tool/toolRef,               *)
(*    selectedElements/selectedElementsRef) are one variable: the effects  *)
(*    that copy them run before the next event is handled.  The value of   *)
(*    historyIndex closed over by addToHistory is passed explicitly.       *)
(***************************************************************************)
EXTENDS Integers, Sequences, FiniteSets, TLC

VARIABLES
  isLoading,           \* App: isLoading
  error,               \* App: error # null
  svgContent,          \* App: currentSvg (a markup, or Null)
  tool,                \* tool / toolRef
  selectedElements,    \* selectedElements / selectedElementsRef (sequence of ids)
  controlPoints,       \* controlPoints (sequence of control points)
  selectionBBox,       \* selectionBBox (a box, or Null)
  history,             \* history (sequence of markups)
  historyIndex,        \* historyIndex
  dragMode,            \* dragModeRef
  isDraggingPoint,     \* isDraggingPointRef (NoPoint for null)
  isDrawing,           \* isDrawingRef
  startPoint,          \* startPointRef (a point, or Null)
  currentDrawElement,  \* currentDrawElementRef (an id, NoElem for null)
  didChange,           \* didChangeRef
  rotationCenter,      \* rotationCenterRef (a point, or Null)
  startTransformsMap,  \* startTransformsMapRef (function from ids to transforms)
  items,               \* App: history (the generated items, newest first)
  apiKey,              \* App: a credential is set (apiKey or process.env.API_KEY)
  response,            \* generateGeometrySvg: response.text (a sequence of tokens)
  extracted,           \* generateGeometrySvg: what the call returned or threw (or Null)
  svg,                 \* the <svg> mounted under mountRef (or Null)
  elems,               \* the element objects: id -> attributes (Null when unused)
  op,                  \* the handler that ran last
  events,              \* the number of events handled so far
  trail,               \* observer: the edits, undos and redos since the ingestion
  gesture              \* observer: the drawing gesture or the delete under way

vars == << isLoading, error, svgContent, tool, selectedElements, controlPoints,
           selectionBBox, history, historyIndex, dragMode, isDraggingPoint,
           isDrawing, startPoint, currentDrawElement, didChange, rotationCenter,
           startTransformsMap, items, apiKey, response, extracted, svg, elems,
           op, events, trail, gesture >>

-----------------------------------------------------------------------------
(* Bounds of the model                                                     *)

\* Largest number of snapshots the history may hold.
MaxHistory == 3

\* Largest number of children of the mounted <svg>.
MaxShapes == 3

\* Largest number of generated items kept by App in the model.
MaxItems == 2

\* Largest number of events (handler calls) of a behaviour.
MaxEvents == 6

\* Largest number of tokens of a response text.
MaxText == 4

\* The resolution of coordinates: Unit steps make one user unit.
Unit == 20

\* Element identities: the children of the tree, the detached elements a
\* stale map may still hold, and a pending drawn element.
Ids == 1 .. (3 * MaxShapes + 1)

-----------------------------------------------------------------------------
(* Values                                                                   *)

Null == [null |-> TRUE]
NoElem == 0
NoPoint == -1

Pt(x, y) == [x |-> x, y |-> y]

\* The point at (x, y) user units.
At(x, y) == Pt(x * Unit, y * Unit)

Min2(a, b) == IF a <= b THEN a ELSE b
Max2(a, b) == IF a >= b THEN a ELSE b
Abs(a) == IF a < 0 THEN -a ELSE a

\* Math.min(...) and Math.max(...) over a non-empty set of numbers.
SetMin(S) == CHOOSE m \in S : \A k \in S : m <= k
SetMax(S) == CHOOSE m \in S : \A k \in S : m >= k

Range(s) == { s[i] : i \in 1 .. Len(s) }
Includes(s, e) == \E k \in 1 .. Len(s) : s[k] = e
Filter(s, e) == SelectSeq(s, LAMBDA y : y # e)

\* TransformData
Transform(tx, ty, rotation, cx, cy) ==
  [tx |-> tx, ty |-> ty, rotation |-> rotation, cx |-> cx, cy |-> cy]

\* Element constructors.  data: the data-tx .. data-cy attributes (Null when
\* absent); transform: the transform attribute, <<>> when absent, <<tx, ty>>
\* for "translate(tx, ty)", <<tx, ty, r, cx, cy>> for
\* "translate(tx, ty) rotate(r, cx, cy)"; dash / styleDash: the
\* stroke-dasharray attribute and inline style ("" when absent);
\* strokeWidth / styleStrokeWidth likewise (0 when absent); other: the
\* attributes a drawing tool wrote on an element of another kind, by tool.
Element(tag, geom) ==
  [tag |-> tag, geom |-> geom, data |-> Null, transform |-> << >>,
   dash |-> "", styleDash |-> "", strokeWidth |-> 2, styleStrokeWidth |-> 0,
   text |-> "", other |-> [line |-> Null, rect |-> Null, circle |-> Null]]

Line(x1, y1, x2, y2) ==
  Element("line", [x1 |-> x1, y1 |-> y1, x2 |-> x2, y2 |-> y2])
Rect(x, y, w, h) ==
  Element("rect", [x |-> x, y |-> y, width |-> w, height |-> h])
Ellipse(cx, cy, rx, ry) ==
  Element("ellipse", [cx |-> cx, cy |-> cy, rx |-> rx, ry |-> ry])
Text(x, y, t) ==
  [Element("text", [x |-> x, y |-> y]) EXCEPT !.text = t, !.strokeWidth = 0]

\* Path data, one record per command, written in the markup as the letter
\* followed by its numbers, separated by spaces: "M x y", "L x y",
\* "Q x1 y1 x y" and "Z" (unused numbers are 0).
Cmd(c, x1, y1, x, y) == [c |-> c, x1 |-> x1, y1 |-> y1, x |-> x, y |-> y]
MoveTo(x, y) == Cmd("M", 0, 0, x, y)
LineTo(x, y) == Cmd("L", 0, 0, x, y)
QuadTo(x1, y1, x, y) == Cmd("Q", x1, y1, x, y)
ClosePath == Cmd("Z", 0, 0, 0, 0)
Path(d) == Element("path", [d |-> d])

\* A markup string, by what it denotes.
Markup(root, width, height, viewBox, children) ==
  [root |-> root, width |-> width, height |-> height, viewBox |-> viewBox,
   children |-> children]

-----------------------------------------------------------------------------
(* Transform store                                                          *)

getElementTransform(el) ==
  IF el.data = Null THEN Transform(0, 0, 0, 0, 0) ELSE el.data

\* A variant that writes the rotate part whatever the rotation is.
setElementTransformRotateAlways(el, data) ==
  [el EXCEPT
     !.data = data,
     !.transform = << data.tx, data.ty, data.rotation, data.cx, data.cy >>]

setElementTransform(el, data) ==
  [el EXCEPT
     !.data = data,
     !.transform = IF data.rotation # 0
                   THEN << data.tx, data.ty, data.rotation, data.cx, data.cy >>
                   ELSE << data.tx, data.ty >>]

-----------------------------------------------------------------------------
(* What the browser renders: the transform attribute applied to the        *)
(* intrinsic geometry (SVG: "translate(tx, ty) rotate(r, cx, cy)" maps a    *)
(* local point p to t + c + R(p - c)).                                      *)

\* v turned by deg degrees (a multiple of 90), y axis pointing down.
Rotate90(v, deg) ==
  LET q == (deg % 360) \div 90
  IN  CASE q = 0 -> v
        [] q = 1 -> Pt(-v.y, v.x)
        [] q = 2 -> Pt(-v.x, -v.y)
        [] OTHER -> Pt(v.y, -v.x)

\* The document point at which local point p of an element is rendered.
ApplyTransformAttr(t, p) ==
  CASE Len(t) = 0 -> p
    [] Len(t) = 2 -> Pt(p.x + t[1], p.y + t[2])
    [] OTHER ->
         LET r == Rotate90(Pt(p.x - t[4], p.y - t[5]), t[3])
         IN  Pt(t[1] + t[4] + r.x, t[2] + t[5] + r.y)

\* The local point of an element that is rendered at document point q
\* (the inverse of the element's CTM).
InvertTransformAttr(t, q) ==
  CASE Len(t) = 0 -> q
    [] Len(t) = 2 -> Pt(q.x - t[1], q.y - t[2])
    [] OTHER ->
         LET r == Rotate90(Pt(q.x - t[1] - t[4], q.y - t[2] - t[5]), 360 - (t[3] % 360))
         IN  Pt(t[4] + r.x, t[5] + r.y)

\* Local points whose images span the rendered extent of an element.
Corners(el) ==
  LET g == el.geom
  IN  CASE el.tag = "line" -> { Pt(g.x1, g.y1), Pt(g.x2, g.y2) }
        [] el.tag = "rect" ->
             { Pt(g.x, g.y), Pt(g.x + g.width, g.y),
               Pt(g.x, g.y + g.height), Pt(g.x + g.width, g.y + g.height) }
        [] el.tag = "ellipse" ->
             { Pt(g.cx - g.rx, g.cy - g.ry), Pt(g.cx + g.rx, g.cy - g.ry),
               Pt(g.cx - g.rx, g.cy + g.ry), Pt(g.cx + g.rx, g.cy + g.ry) }
        [] el.tag = "path" ->
             \* the curves of the model lie in the box of their end points
             { Pt(g.d[k].x, g.d[k].y) : k \in { j \in 1 .. Len(g.d) : g.d[j].c # "Z" } }
        [] OTHER -> { Pt(g.x, g.y) }

\* getBoundingClientRect mapped back to document space by getSVGPoint:
\* <<left, top, right, bottom>>.  An element outside the mounted tree has an
\* all-zero client rectangle; the screen origin is taken as document (0, 0).
RenderedRect(attached, el) ==
  IF ~attached THEN << 0, 0, 0, 0 >>
  ELSE LET pts == { ApplyTransformAttr(el.transform, c) : c \in Corners(el) }
           xs  == { q.x : q \in pts }
           ys  == { q.y : q \in pts }
       IN  << SetMin(xs), SetMin(ys), SetMax(xs), SetMax(ys) >>

-----------------------------------------------------------------------------
(* Shape descriptor model                                                   *)

ControlPoint(x, y, id, type) == [x |-> x, y |-> y, id |-> id, type |-> type]

\* d.match(/[ML]\s*[\d.-]+\s*[\d.-]+/gi): the move and line commands of
\* path data, in order (<< >> where match returns null).
matchMoveLine(d) == SelectSeq(d, LAMBDA c : c.c \in { "M", "L" })

parseControlPoints(el) ==
  LET g == el.geom
  IN  CASE el.tag = "line" ->
             << ControlPoint(g.x1, g.y1, 0, "vertex"),
                ControlPoint(g.x2, g.y2, 1, "vertex") >>
        [] el.tag = "ellipse" ->
             << ControlPoint(g.cx, g.cy, 0, "center"),
                ControlPoint(g.cx + g.rx, g.cy, 1, "radiusX"),
                ControlPoint(g.cx, g.cy + g.ry, 2, "radiusY") >>
        [] el.tag = "rect" ->
             << ControlPoint(g.x, g.y, 0, "resize"),
                ControlPoint(g.x + g.width, g.y + g.height, 1, "resize") >>
        [] el.tag = "path" ->
             LET commands == matchMoveLine(g.d)
             IN  [index \in 1 .. Len(commands) |->
                    ControlPoint(commands[index].x, commands[index].y,
                                 index - 1, "vertex")]
        [] el.tag = "text" ->
             << ControlPoint(g.x, g.y, 0, "center") >>
        [] OTHER -> << >>

\* A variant of updateRect that accepts an edit as soon as one of the two new
\* sizes is positive; the rectangle invariant does not hold of it.
updateRectEitherSize(g, pointIndex, newX, newY) ==
  IF pointIndex = 0
  THEN LET newW == (g.x + g.width) - newX
           newH == (g.y + g.height) - newY
       IN  IF newW > 0 \/ newH > 0
           THEN [x |-> newX, y |-> newY, width |-> newW, height |-> newH]
           ELSE g
  ELSE LET newW == newX - g.x
           newH == newY - g.y
       IN  IF newW > 0 \/ newH > 0
           THEN [g EXCEPT !.width = newW, !.height = newH]
           ELSE g

\* A variant of updateRect whose top-left edit writes x and y and leaves the
\* width and height as they were.
updateRectCornerOnly(g, pointIndex, newX, newY) ==
  IF pointIndex = 0
  THEN LET newW == (g.x + g.width) - newX
           newH == (g.y + g.height) - newY
       IN  IF newW > 0 /\ newH > 0
           THEN [g EXCEPT !.x = newX, !.y = newY]
           ELSE g
  ELSE LET newW == newX - g.x
           newH == newY - g.y
       IN  IF newW > 0 /\ newH > 0
           THEN [g EXCEPT !.width = newW, !.height = newH]
           ELSE g

\* updateElementShape's rectangle branch: the new geometry.
updateRect(g, pointIndex, newX, newY) ==
  IF pointIndex = 0
  THEN LET newW == (g.x + g.width) - newX
           newH == (g.y + g.height) - newY
       IN  IF newW > 0 /\ newH > 0
           THEN [x |-> newX, y |-> newY, width |-> newW, height |-> newH]
           ELSE g
  ELSE LET newW == newX - g.x
           newH == newY - g.y
       IN  IF newW > 0 /\ newH > 0
           THEN [g EXCEPT !.width = newW, !.height = newH]
           ELSE g

\* updateElementShape: the element after the edit of control point pointIndex
\* (the function also sets didChangeRef, which the calling action does).
updateElementShape(el, pointIndex, newX, newY) ==
  LET g == el.geom
  IN  CASE el.tag = "line" ->
             IF pointIndex = 0
             THEN [el EXCEPT !.geom.x1 = newX, !.geom.y1 = newY]
             ELSE [el EXCEPT !.geom.x2 = newX, !.geom.y2 = newY]
        [] el.tag = "ellipse" ->
             CASE pointIndex = 0 -> [el EXCEPT !.geom.cx = newX, !.geom.cy = newY]
               [] pointIndex = 1 -> [el EXCEPT !.geom.rx = Abs(newX - g.cx)]
               [] pointIndex = 2 -> [el EXCEPT !.geom.ry = Abs(newY - g.cy)]
               [] OTHER -> el
        [] el.tag = "rect" ->
             [el EXCEPT !.geom = updateRect(g, pointIndex, newX, newY)]
        [] el.tag = "path" ->
             LET commands == matchMoveLine(g.d)
             IN  IF pointIndex + 1 \in 1 .. Len(commands)
                 THEN LET currentPoints ==
                            [parseControlPoints(el) EXCEPT
                               ![pointIndex + 1].x = newX, ![pointIndex + 1].y = newY]
                          newD ==
                            [idx \in 1 .. Len(currentPoints) |->
                               IF idx = 1
                               THEN MoveTo(currentPoints[idx].x, currentPoints[idx].y)
                               ELSE LineTo(currentPoints[idx].x, currentPoints[idx].y)]
                      IN  [el EXCEPT !.geom.d =
                             IF \E k \in 1 .. Len(g.d) : g.d[k].c = "Z"
                             THEN newD \o << ClosePath >>
                             ELSE newD]
                 ELSE el
        [] el.tag = "text" ->
             [el EXCEPT !.geom.x = newX, !.geom.y = newY]
        [] OTHER -> el

-----------------------------------------------------------------------------
(* Selection bounding box                                                   *)

BoundingBox(minX, minY, maxX, maxY) ==
  [x |-> minX, y |-> minY, width |-> maxX - minX, height |-> maxY - minY,
   cx |-> (minX + maxX) \div 2, cy |-> (minY + maxY) \div 2]

\* The extent <<minX, minY, maxX, maxY>> of the elements ids (not empty),
\* with element table E and mounted tree S.
Extent(ids, E, S) ==
  LET rects == { RenderedRect(S # Null /\ Includes(S.children, i), E[i]) :
                   i \in Range(ids) }
  IN  << SetMin({ Min2(r[1], r[3]) : r \in rects }),
         SetMin({ Min2(r[2], r[4]) : r \in rects }),
         SetMax({ Max2(r[1], r[3]) : r \in rects }),
         SetMax({ Max2(r[2], r[4]) : r \in rects }) >>

\* The value updateSelectionBBox(elements) stores in selectionBBox.
updateSelectionBBox(ids, E, S) ==
  IF Len(ids) = 0 THEN Null
  ELSE LET e == Extent(ids, E, S)
       IN  IF Abs(e[1]) > 10000 * Unit THEN Null
           ELSE BoundingBox(e[1], e[2], e[3], e[4])

\* The centre of the box is a whole number (the model keeps to integers).
BBoxExact(ids, E, S) ==
  IF Len(ids) = 0 THEN TRUE
  ELSE LET e == Extent(ids, E, S)
       IN  (e[1] + e[3]) % 2 = 0 /\ (e[2] + e[4]) % 2 = 0

-----------------------------------------------------------------------------
(* Serialization and parsing                                                *)

\* XMLSerializer.serializeToString(svg): the markup of the mounted tree.
Serialize(S, E) ==
  Markup("svg", S.width, S.height, S.viewBox,
         [i \in 1 .. Len(S.children) |-> E[S.children[i]]])

\* getCurrentSVGString
getCurrentSVGString(S, E) == IF S = Null THEN Null ELSE Serialize(S, E)

\* The n lowest identities outside used, in increasing order.
RECURSIVE NewIds(_, _)
NewIds(n, used) ==
  IF n = 0 THEN << >>
  ELSE LET i == SetMin(Ids \ used)
       IN  << i >> \o NewIds(n - 1, used \cup {i})

\* DOMParser.parseFromString: the element objects of a markup are new.
ParsedTree(m, ids) ==
  [width |-> m.width, height |-> m.height, viewBox |-> m.viewBox, children |-> ids]

ParsedElems(m, ids, E) ==
  [i \in Ids |->
     IF \E k \in 1 .. Len(ids) : ids[k] = i
     THEN m.children[CHOOSE k \in 1 .. Len(ids) : ids[k] = i]
     ELSE E[i]]

-----------------------------------------------------------------------------
(* History                                                                  *)

\* addToHistory with closed-over historyIndex closure: the pair
\* <<history, historyIndex>> after the two functional updates.
addToHistory(h, idx, closure, content) ==
  IF content = Null THEN << h, idx >>
  ELSE << SubSeq(h, 1, Min2(closure + 1, Len(h))) \o << content >>, idx + 1 >>

-----------------------------------------------------------------------------
(* Views and the element table                                              *)

\* Which of its four returns DrawingCanvas renders.
View(l, e, c) ==
  IF l THEN "loading" ELSE IF e THEN "error" ELSE IF c = Null THEN "empty" ELSE "editor"

InEditor == View(isLoading, error, svgContent) = "editor"

\* getSVGPoint: the pointer position in document space; (0, 0) without <svg>.
getSVGPoint(pt) == IF svg = Null THEN Pt(0, 0) ELSE pt

\* getLocalPoint: the pointer position in the local space of element i.
getLocalPoint(pt, i) ==
  IF svg = Null THEN Pt(0, 0)
  ELSE IF Includes(svg.children, i) THEN InvertTransformAttr(elems[i].transform, pt)
  ELSE pt

\* Identities some reference still holds in the next state.
Referenced ==
  (IF svg' = Null THEN {} ELSE Range(svg'.children))
    \cup Range(selectedElements') \cup DOMAIN startTransformsMap'
    \cup (IF currentDrawElement' = NoElem THEN {} ELSE {currentDrawElement'})

\* The element table of the next state: E, without the unreferenced objects.
Collect(E) == [i \in Ids |-> IF i \in Referenced THEN E[i] ELSE Null]

\* Identities a new tree may not reuse: those the refs keep across a restore.
Kept ==
  DOMAIN startTransformsMap
    \cup (IF currentDrawElement = NoElem THEN {} ELSE {currentDrawElement})

appVars == << isLoading, error, svgContent, apiKey >>
uiVars == << tool, selectedElements, controlPoints, selectionBBox >>
histVars == << history, historyIndex >>
refVars == << dragMode, isDraggingPoint, isDrawing, startPoint, currentDrawElement,
              didChange, rotationCenter, startTransformsMap >>

\* The bound of the model on the history.
HistoryBound == Len(history') <= MaxHistory /\ historyIndex' <= MaxHistory

-----------------------------------------------------------------------------
(* Ingestion: useEffect(..., [svgContent])                                  *)

Percent100 == [num |-> 100, unit |-> "%"]

\* parseFloat(getAttribute(name) || '500')
parseSize(a) == IF a = Null THEN 500 ELSE a.num

\* A variant of Normalised that computes the viewBox from width and height
\* whether or not the markup has one; it is not idempotent.
NormalisedAlways(m) ==
  [m EXCEPT !.width = Percent100, !.height = Percent100,
            !.viewBox = << 0, 0, parseSize(m.width), parseSize(m.height) >>]

\* The root attributes after the normalisation of lines 1192-1198: width and
\* height are overwritten first, the viewBox default reads them afterwards.
Normalised(m) ==
  LET sized == [m EXCEPT !.width = Percent100, !.height = Percent100]
  IN  IF sized.viewBox # Null THEN sized
      ELSE [sized EXCEPT
              !.viewBox = << 0, 0, parseSize(sized.width), parseSize(sized.height) >>]

\* A variant of Ingest that empties the mount point before the root tag is
\* tested.
IngestClearFirst(content, inEditor, mounted) ==
  IF ~inEditor \/ content = Null
  THEN /\ UNCHANGED << uiVars, histVars, refVars >>
       /\ svg' = mounted
       /\ elems' = Collect(elems)
  ELSE /\ selectedElements' = << >>
       /\ controlPoints' = << >>
       /\ selectionBBox' = Null
       /\ UNCHANGED << tool, refVars >>
       /\ IF content.root # "svg"
          THEN /\ history' = << >>
               /\ historyIndex' = -1
               /\ svg' = Null
               /\ elems' = Collect(elems)
          ELSE LET m   == Normalised(content)
                   ids == NewIds(Len(m.children), Kept)
               IN  /\ svg' = ParsedTree(m, ids)
                   /\ elems' = Collect(ParsedElems(m, ids, elems))
                   /\ history' = << m >>
                   /\ historyIndex' = 0

\* The effect, run with the props of the next render; mounted: the tree
\* under mountRef when the effect starts (Null when there is none).
Ingest(content, inEditor, mounted) ==
  IF ~inEditor \/ content = Null
  THEN /\ UNCHANGED << uiVars, histVars, refVars >>
       /\ svg' = mounted
       /\ elems' = Collect(elems)
  ELSE /\ selectedElements' = << >>
       /\ controlPoints' = << >>
       /\ selectionBBox' = Null
       /\ UNCHANGED << tool, refVars >>
       /\ IF content.root # "svg"
          THEN /\ history' = << >>
               /\ historyIndex' = -1
               /\ svg' = mounted
               /\ elems' = Collect(elems)
          ELSE LET m   == Normalised(content)
                   ids == NewIds(Len(m.children), Kept)
               IN  /\ svg' = ParsedTree(m, ids)
                   /\ elems' = Collect(ParsedElems(m, ids, elems))
                   /\ history' = << m >>
                   /\ historyIndex' = 0

\* A render of App with new state: the canvas leaves or enters the editor
\* view (the mount point is unmounted with its tree, or created empty), and
\* the ingestion effect runs when svgContent changed.
Render(l, e, c) ==
  LET was     == InEditor
      now     == View(l, e, c) = "editor"
      mounted == IF was /\ now THEN svg ELSE Null
  IN  /\ isLoading' = l
      /\ error' = e
      /\ svgContent' = c
      /\ IF c # svgContent
         THEN Ingest(c, now, mounted)
         ELSE /\ UNCHANGED << uiVars, histVars, refVars >>
              /\ svg' = mounted
              /\ elems' = Collect(elems)

-----------------------------------------------------------------------------
(* generateGeometrySvg: the markup in the response text                     *)

\* A text is a sequence of tokens: the code-fence markers (three backquotes
\* followed by xml, followed by svg, and alone), the opening and the closing
\* root tag, a blank and any other text.
Fences == << "fence-xml", "fence-svg", "fence" >>
Tokens == Range(Fences) \cup { "<svg", "</svg>", " ", "x" }

\* text.replace(/f/g, "")
replace(text, f) == SelectSeq(text, LAMBDA k : k # f)

\* String.prototype.trim
RECURSIVE trim(_)
trim(text) ==
  IF text = << >> THEN text
  ELSE IF Head(text) = " " THEN trim(Tail(text))
  ELSE IF text[Len(text)] = " " THEN trim(SubSeq(text, 1, Len(text) - 1))
  ELSE text

startsWith(text, k) == text # << >> /\ text[1] = k
endsWith(text, k) == text # << >> /\ text[Len(text)] = k

\* The positions of token k in text (1 is the first token).
Positions(text, k) == { i \in 1 .. Len(text) : text[i] = k }

\* String.prototype.indexOf: the first position of k, 0 when there is none.
indexOf(text, k) ==
  IF Positions(text, k) = {} THEN 0 ELSE SetMin(Positions(text, k))

\* String.prototype.substring(a, b) with bounds between tokens: bound i lies
\* before token i; the arguments are swapped when a > b.
substring(text, a, b) == SubSeq(text, Min2(a, b), Max2(a, b) - 1)

Returned(text) == [ok |-> TRUE, text |-> text]
Thrown == [ok |-> FALSE]

\* The text without fence markers and surrounding blanks.
Cleaned(text) ==
  trim(replace(replace(replace(text, Fences[1]), Fences[2]), Fences[3]))

\* What generateGeometrySvg makes of response.text (lines 95-110): the end
\* of the closing tag, endIndex + 6 in characters, is the bound after its
\* token.
Extraction(text) ==
  LET t == Cleaned(text)
  IN  IF text = << >> THEN Thrown
      ELSE IF startsWith(t, "<svg") /\ endsWith(t, "</svg>") THEN Returned(t)
      ELSE LET startIndex == indexOf(t, "<svg")
               endIndex   == indexOf(t, "</svg>")
           IN  IF startIndex # 0 /\ endIndex # 0
               THEN Returned(substring(t, startIndex, endIndex + 1))
               ELSE Thrown

\* generateGeometrySvg once the service answered with the text response.
generateGeometrySvg ==
  /\ extracted = Null
  /\ extracted' = Extraction(response)
  /\ UNCHANGED << appVars, items, uiVars, histVars, refVars, svg, elems, response,
                  trail, gesture >>
  /\ events' = events + 1
  /\ op' = "generateGeometrySvg"

-----------------------------------------------------------------------------
(* App                                                                      *)

\* handleApiKeyChange: the credential is entered (v) or emptied (~v).
handleApiKeyChange(v) ==
  /\ v # apiKey
  /\ apiKey' = v
  /\ UNCHANGED << isLoading, error, svgContent, items, uiVars, histVars, refVars, svg >>
  /\ elems' = Collect(elems)
  /\ op' = "apiKeyChange"

\* A click on the generate button without a credential: the button is
\* disabled and no handler runs.
GenerateRefused ==
  /\ ~isLoading
  /\ ~apiKey
  /\ UNCHANGED << appVars, items, uiVars, histVars, refVars, svg >>
  /\ elems' = Collect(elems)
  /\ op' = "generateRefused"

\* A variant of GenerateStart that runs without a credential.
GenerateStartNoKey ==
  /\ ~isLoading
  /\ Len(items) < MaxItems
  /\ Render(TRUE, FALSE, svgContent)
  /\ UNCHANGED << items, apiKey >>
  /\ op' = "generate"

\* handleGenerate up to the await (the button is disabled while loading and
\* without a credential, so that the credential test of the handler passes).
GenerateStart ==
  /\ ~isLoading
  /\ apiKey
  /\ Len(items) < MaxItems
  /\ Render(TRUE, FALSE, svgContent)
  /\ UNCHANGED << items, apiKey >>
  /\ op' = "generate"

\* handleGenerate after generateGeometrySvg returned markup m.
GenerateSuccess(m) ==
  /\ isLoading
  /\ Render(FALSE, error, m)
  /\ items' = SubSeq(<< m >> \o items, 1, Min2(10, Len(items) + 1))
  /\ UNCHANGED apiKey
  /\ op' = "generated"

\* handleGenerate after generateGeometrySvg threw.
GenerateFail ==
  /\ isLoading
  /\ Render(FALSE, TRUE, svgContent)
  /\ UNCHANGED << items, apiKey >>
  /\ op' = "generateFailed"

loadHistoryItem(i) ==
  /\ i \in 1 .. Len(items)
  /\ Render(isLoading, FALSE, items[i])
  /\ UNCHANGED << items, apiKey >>
  /\ op' = "loadHistoryItem"

-----------------------------------------------------------------------------
(* Toolbar                                                                  *)

setTool(t) ==
  /\ InEditor
  /\ t # tool
  /\ tool' = t
  /\ UNCHANGED << appVars, items, selectedElements, controlPoints, selectionBBox,
                  histVars, refVars, svg, elems >>
  /\ op' = "setTool"

\* A variant of restoreState that keeps the selection; the restore frame
\* does not hold of it.
restoreStateKeepSelection(newIndex) ==
  /\ selectedElements' = selectedElements
  /\ controlPoints' = << >>
  /\ selectionBBox' = Null
  /\ IF newIndex + 1 \in 1 .. Len(history)
     THEN LET m   == history[newIndex + 1]
              ids == NewIds(Len(m.children), Kept)
          IN  /\ svg' = ParsedTree(m, ids)
              /\ elems' = Collect(ParsedElems(m, ids, elems))
     ELSE /\ svg' = Null
          /\ elems' = Collect(elems)

\* restoreState(history[newIndex]) in the editor view.
restoreState(newIndex) ==
  /\ selectedElements' = << >>
  /\ controlPoints' = << >>
  /\ selectionBBox' = Null
  /\ IF newIndex + 1 \in 1 .. Len(history)
     THEN LET m   == history[newIndex + 1]
              ids == NewIds(Len(m.children), Kept)
          IN  /\ svg' = ParsedTree(m, ids)
              /\ elems' = Collect(ParsedElems(m, ids, elems))
     ELSE /\ svg' = Null
          /\ elems' = Collect(elems)

handleUndo ==
  /\ InEditor
  /\ IF historyIndex > 0
     THEN /\ historyIndex' = historyIndex - 1
          /\ UNCHANGED << appVars, items, tool, history, refVars >>
          /\ restoreState(historyIndex - 1)
     ELSE UNCHANGED << appVars, items, uiVars, histVars, refVars, svg, elems >>
  /\ op' = "undo"

\* A variant of handleRedo whose guard is off by one; the no-op frame does
\* not hold of it.
handleRedoPastEnd ==
  /\ InEditor
  /\ IF historyIndex < Len(history)
     THEN /\ historyIndex' = historyIndex + 1
          /\ UNCHANGED << appVars, items, tool, history, refVars >>
          /\ restoreState(historyIndex + 1)
     ELSE UNCHANGED << appVars, items, uiVars, histVars, refVars, svg, elems >>
  /\ op' = "redo"

handleRedo ==
  /\ InEditor
  /\ IF historyIndex < Len(history) - 1
     THEN /\ historyIndex' = historyIndex + 1
          /\ UNCHANGED << appVars, items, tool, history, refVars >>
          /\ restoreState(historyIndex + 1)
     ELSE UNCHANGED << appVars, items, uiVars, histVars, refVars, svg, elems >>
  /\ op' = "redo"

\* The tree without the elements of sel.
RemoveChildren(S, sel) ==
  IF S = Null THEN Null
  ELSE [S EXCEPT !.children = SelectSeq(S.children, LAMBDA i : ~Includes(sel, i))]

\* One call of addToHistory on the tree S with elements E.
Commit(S, E) ==
  LET r == addToHistory(history, historyIndex, historyIndex, getCurrentSVGString(S, E))
  IN  /\ history' = r[1]
      /\ historyIndex' = r[2]
      /\ HistoryBound

\* A variant of handleDelete that removes the first selected shape only;
\* the delete contract does not hold of it.
handleDeleteFirst ==
  /\ InEditor
  /\ Len(selectedElements) > 0
  /\ selectedElements' = << >>
  /\ controlPoints' = << >>
  /\ selectionBBox' = Null
  /\ svg' = RemoveChildren(svg, << selectedElements[1] >>)
  /\ Commit(svg', elems)
  /\ UNCHANGED << appVars, items, tool, refVars >>
  /\ elems' = Collect(elems)
  /\ op' = "delete"

handleDelete ==
  /\ InEditor
  /\ Len(selectedElements) > 0
  /\ selectedElements' = << >>
  /\ controlPoints' = << >>
  /\ selectionBBox' = Null
  /\ svg' = RemoveChildren(svg, selectedElements)
  /\ Commit(svg', elems)
  /\ UNCHANGED << appVars, items, tool, refVars >>
  /\ elems' = Collect(elems)
  /\ op' = "delete"

isDashed(el) ==
  (el.dash # "" /\ el.dash # "none") \/ (el.styleDash # "" /\ el.styleDash # "none")

toggleDash(el) ==
  IF isDashed(el)
  THEN [el EXCEPT !.dash = "none", !.styleDash = "none"]
  ELSE [el EXCEPT !.dash = "4 4", !.styleDash = "4 4"]

\* A variant of handleToggleDash that commits once per selected shape (every
\* call of addToHistory with the historyIndex the handler closed over); the
\* style fan-out does not hold of it.
handleToggleDashEach ==
  /\ InEditor
  /\ Len(selectedElements) > 0
  /\ LET E == [i \in Ids |-> IF Includes(selectedElements, i)
                             THEN toggleDash(elems[i]) ELSE elems[i]]
         r == addToHistory(history, historyIndex, historyIndex,
                           getCurrentSVGString(svg, E))
     IN  /\ history' = r[1]
         /\ historyIndex' = IF r[2] = historyIndex THEN historyIndex
                             ELSE historyIndex + Len(selectedElements)
         /\ HistoryBound
         /\ UNCHANGED << appVars, items, uiVars, refVars, svg >>
         /\ elems' = Collect(E)
  /\ op' = "toggleDash"

handleToggleDash ==
  /\ InEditor
  /\ Len(selectedElements) > 0
  /\ LET E == [i \in Ids |-> IF Includes(selectedElements, i)
                             THEN toggleDash(elems[i]) ELSE elems[i]]
     IN  /\ Commit(svg, E)
         /\ UNCHANGED << appVars, items, uiVars, refVars, svg >>
         /\ elems' = Collect(E)
  /\ op' = "toggleDash"

handleChangeStrokeWidth(width) ==
  /\ InEditor
  /\ Len(selectedElements) > 0
  /\ LET E == [i \in Ids |-> IF Includes(selectedElements, i)
                             THEN [elems[i] EXCEPT !.strokeWidth = width,
                                                   !.styleStrokeWidth = width]
                             ELSE elems[i]]
     IN  /\ Commit(svg, E)
         /\ UNCHANGED << appVars, items, uiVars, refVars, svg >>
         /\ elems' = Collect(E)
  /\ op' = "strokeWidth"

-----------------------------------------------------------------------------
(* Pointer-down handlers                                                    *)

\* What the select branch does to the selection.
\* A variant of newSelection that puts the shape added with the modifier
\* before the selected shapes.
newSelectionPrepend(sel, target, isCtrl) ==
  IF isCtrl
  THEN IF Includes(sel, target) THEN Filter(sel, target) ELSE << target >> \o sel
  ELSE IF ~Includes(sel, target) THEN << target >> ELSE sel

newSelection(sel, target, isCtrl) ==
  IF isCtrl
  THEN IF Includes(sel, target) THEN Filter(sel, target) ELSE Append(sel, target)
  ELSE IF ~Includes(sel, target) THEN << target >> ELSE sel

\* A variant of captureTransforms that captures the transform of the first
\* element only.
captureTransformsFirst(sel) ==
  [i \in {sel[k] : k \in 1 .. Min2(1, Len(sel))} |-> getElementTransform(elems[i])]

\* The map of start transforms captured for the elements of sel.
captureTransforms(sel) ==
  [i \in Range(sel) |-> getElementTransform(elems[i])]

\* The element a drawing tool creates at pt.
newElement(t, pt) ==
  CASE t = "rect" -> Rect(pt.x, pt.y, 0, 0)
    [] t = "circle" -> Ellipse(pt.x, pt.y, 0, 0)
    [] OTHER -> Line(pt.x, pt.y, pt.x, pt.y)

\* An identity for a new element.
FreshId == NewIds(1, { i \in Ids : elems[i] # Null })[1]

\* handleMouseDownCanvas with a drawing tool (line, rect, circle).
handleMouseDownDraw(p) ==
  /\ InEditor
  /\ tool \in {"line", "rect", "circle"}
  /\ IF svg = Null
     THEN UNCHANGED << uiVars, refVars, svg, elems >>
     ELSE LET pt == getSVGPoint(p)
              id == FreshId
          IN  /\ Len(svg.children) < MaxShapes
              /\ isDrawing' = TRUE
              /\ didChange' = FALSE
              /\ startPoint' = pt
              /\ selectedElements' = << >>
              /\ controlPoints' = << >>
              /\ selectionBBox' = Null
              /\ svg' = [svg EXCEPT !.children = Append(@, id)]
              /\ currentDrawElement' = id
              /\ UNCHANGED << tool, dragMode, isDraggingPoint, rotationCenter,
                              startTransformsMap >>
              /\ elems' = Collect([elems EXCEPT ![id] = newElement(tool, pt)])
  /\ UNCHANGED << appVars, items, histVars >>
  /\ op' = "mouseDownDraw"

\* A variant of handleMouseDownText that leaves the text tool active after
\* the insertion.
handleMouseDownTextKeepTool(p, text) ==
  /\ InEditor
  /\ tool = "text"
  /\ IF svg = Null
     THEN UNCHANGED << uiVars, histVars, refVars, svg, elems >>
     ELSE LET pt == getSVGPoint(p)
              id == FreshId
              E  == [elems EXCEPT ![id] = Text(pt.x, pt.y, text)]
          IN  /\ didChange' = FALSE
              /\ startPoint' = pt
              /\ isDrawing' = FALSE
              /\ UNCHANGED << dragMode, isDraggingPoint, currentDrawElement,
                              rotationCenter, startTransformsMap, tool >>
              /\ IF text # ""
                 THEN /\ Len(svg.children) < MaxShapes
                      /\ svg' = [svg EXCEPT !.children = Append(@, id)]
                      /\ Commit(svg', E)
                      /\ selectedElements' = << id >>
                      /\ controlPoints' = parseControlPoints(E[id])
                      /\ selectionBBox' = updateSelectionBBox(<< id >>, E, svg')
                      /\ elems' = Collect(E)
                 ELSE /\ selectedElements' = << >>
                      /\ controlPoints' = << >>
                      /\ selectionBBox' = Null
                      /\ UNCHANGED << histVars, svg >>
                      /\ elems' = Collect(elems)
  /\ UNCHANGED << appVars, items >>
  /\ op' = "mouseDownText"

\* handleMouseDownCanvas with the text tool; text: what prompt() returned
\* ("" for an empty or cancelled prompt).
handleMouseDownText(p, text) ==
  /\ InEditor
  /\ tool = "text"
  /\ IF svg = Null
     THEN UNCHANGED << uiVars, histVars, refVars, svg, elems >>
     ELSE LET pt == getSVGPoint(p)
              id == FreshId
              E  == [elems EXCEPT ![id] = Text(pt.x, pt.y, text)]
          IN  /\ didChange' = FALSE
              /\ startPoint' = pt
              /\ isDrawing' = FALSE
              /\ UNCHANGED << dragMode, isDraggingPoint, currentDrawElement,
                              rotationCenter, startTransformsMap >>
              /\ IF text # ""
                 THEN /\ Len(svg.children) < MaxShapes
                      /\ svg' = [svg EXCEPT !.children = Append(@, id)]
                      /\ Commit(svg', E)
                      /\ selectedElements' = << id >>
                      /\ controlPoints' = parseControlPoints(E[id])
                      /\ selectionBBox' = updateSelectionBBox(<< id >>, E, svg')
                      /\ tool' = "select"
                      /\ elems' = Collect(E)
                 ELSE /\ selectedElements' = << >>
                      /\ controlPoints' = << >>
                      /\ selectionBBox' = Null
                      /\ UNCHANGED << tool, histVars, svg >>
                      /\ elems' = Collect(elems)
  /\ UNCHANGED << appVars, items >>
  /\ op' = "mouseDownText"

\* The browser can report the element as the target of a pointer event: it
\* paints something.
Hittable(el) ==
  CASE el.tag = "rect" -> el.geom.width > 0 /\ el.geom.height > 0
    [] el.tag = "ellipse" -> el.geom.rx > 0 /\ el.geom.ry > 0
    [] el.tag = "line" -> el.geom.x1 # el.geom.x2 \/ el.geom.y1 # el.geom.y2
    [] el.tag = "path" -> Len(el.geom.d) > 1
    [] OTHER -> el.text # ""

\* A variant of selectionControlPoints that shows the control points of the
\* first selected shape of any non-empty selection.
selectionControlPointsFirst(sel, E) ==
  IF Len(sel) >= 1 THEN parseControlPoints(E[sel[1]]) ELSE << >>

\* The control points the select branch sets for the new selection.
selectionControlPoints(sel, E) ==
  IF Len(sel) = 1 THEN parseControlPoints(E[sel[1]]) ELSE << >>

\* handleMouseDownCanvas with the select tool; target: the shape under the
\* pointer (a child of the mounted tree), NoElem for anything else.
handleMouseDownSelect(p, target, isCtrl) ==
  /\ InEditor
  /\ tool = "select"
  /\ IF target # NoElem
     THEN LET sel == newSelection(selectedElements, target, isCtrl)
          IN  /\ svg # Null
              /\ Includes(svg.children, target)
              /\ Hittable(elems[target])
              /\ BBoxExact(sel, elems, svg)
              /\ selectedElements' = sel
              /\ controlPoints' = selectionControlPoints(sel, elems)
              /\ selectionBBox' = updateSelectionBBox(sel, elems, svg)
              /\ dragMode' = "move"
              /\ startPoint' = getSVGPoint(p)
              /\ didChange' = FALSE
              /\ startTransformsMap' = captureTransforms(sel)
              /\ UNCHANGED << isDraggingPoint, isDrawing, currentDrawElement,
                              rotationCenter >>
     ELSE /\ ~isCtrl
          /\ selectedElements' = << >>
          /\ controlPoints' = << >>
          /\ selectionBBox' = Null
          /\ dragMode' = "none"
          /\ UNCHANGED << isDraggingPoint, isDrawing, startPoint, currentDrawElement,
                          didChange, rotationCenter, startTransformsMap >>
  /\ UNCHANGED << appVars, items, tool, histVars, svg >>
  /\ elems' = Collect(elems)
  /\ op' = "mouseDownSelect"

\* The overlay is rendered for the select tool and a non-empty selection.
OverlayShown == InEditor /\ tool = "select" /\ Len(selectedElements) > 0

\* A variant of handleBBoxMouseDown that leaves didChangeRef as it is.
handleBBoxMouseDownKeepChange(p) ==
  /\ OverlayShown
  /\ selectionBBox # Null
  /\ dragMode' = "move"
  /\ startPoint' = getSVGPoint(p)
  /\ didChange' = didChange
  /\ startTransformsMap' = captureTransforms(selectedElements)
  /\ UNCHANGED << appVars, items, uiVars, histVars, isDraggingPoint, isDrawing,
                  currentDrawElement, rotationCenter, svg >>
  /\ elems' = Collect(elems)
  /\ op' = "mouseDownBBox"

handleBBoxMouseDown(p) ==
  /\ OverlayShown
  /\ selectionBBox # Null
  /\ dragMode' = "move"
  /\ startPoint' = getSVGPoint(p)
  /\ didChange' = FALSE
  /\ startTransformsMap' = captureTransforms(selectedElements)
  /\ UNCHANGED << appVars, items, uiVars, histVars, isDraggingPoint, isDrawing,
                  currentDrawElement, rotationCenter, svg >>
  /\ elems' = Collect(elems)
  /\ op' = "mouseDownBBox"

\* The centre of the rotate handle: horizontally centred on the box, its
\* 32 px square ending at the top edge of the box.
RotateHandle(box) == Pt(box.cx, box.y - 16)

handleRotateMouseDown ==
  /\ OverlayShown
  /\ selectionBBox # Null
  /\ dragMode' = "rotate"
  /\ startPoint' = getSVGPoint(RotateHandle(selectionBBox))
  /\ didChange' = FALSE
  /\ rotationCenter' = Pt(selectionBBox.cx, selectionBBox.cy)
  /\ startTransformsMap' = captureTransforms(selectedElements)
  /\ UNCHANGED << appVars, items, uiVars, histVars, isDraggingPoint, isDrawing,
                  currentDrawElement, svg >>
  /\ elems' = Collect(elems)
  /\ op' = "mouseDownRotate"

handleVertexMouseDown(idx) ==
  /\ OverlayShown
  /\ Len(selectedElements) = 1
  /\ idx \in 0 .. Len(controlPoints) - 1
  /\ dragMode' = "vertex"
  /\ isDraggingPoint' = idx
  /\ didChange' = FALSE
  /\ UNCHANGED << appVars, items, uiVars, histVars, isDrawing, startPoint,
                  currentDrawElement, rotationCenter, startTransformsMap, svg, elems >>
  /\ op' = "mouseDownVertex"

-----------------------------------------------------------------------------
(* Pointer-move                                                             *)

\* Math.atan2(y, x) in degrees, for a vector along an axis.
OnAxis(v) == v.x = 0 \/ v.y = 0
atan2Deg(y, x) ==
  IF y = 0 THEN (IF x >= 0 THEN 0 ELSE 180) ELSE IF y > 0 THEN 90 ELSE -90

\* The move branch: every selected element that has a captured transform
\* gets that transform translated by (dx, dy).
moveElements(E, sel, map, dx, dy) ==
  [i \in Ids |->
     IF Includes(sel, i) /\ i \in DOMAIN map
     THEN setElementTransform(E[i], [map[i] EXCEPT !.tx = map[i].tx + dx,
                                                   !.ty = map[i].ty + dy])
     ELSE E[i]]

\* A variant of the rotate branch that does not store the pivot; the pivot
\* stability does not hold of it.
rotateElementsKeepPivot(E, sel, map, angleDelta, cx, cy) ==
  [i \in Ids |->
     IF Includes(sel, i) /\ i \in DOMAIN map
     THEN setElementTransform(E[i], [map[i] EXCEPT !.rotation = map[i].rotation + angleDelta])
     ELSE E[i]]

\* A variant of the rotate branch that takes the centre of the current
\* bounding box as the pivot.
rotateElementsLivePivot(E, sel, map, angleDelta, cx, cy) ==
  [i \in Ids |->
     IF Includes(sel, i) /\ i \in DOMAIN map
     THEN setElementTransform(E[i], [map[i] EXCEPT !.rotation = map[i].rotation + angleDelta,
                                                   !.cx = selectionBBox.cx,
                                                   !.cy = selectionBBox.cy])
     ELSE E[i]]

\* The rotate branch.
rotateElements(E, sel, map, angleDelta, cx, cy) ==
  [i \in Ids |->
     IF Includes(sel, i) /\ i \in DOMAIN map
     THEN setElementTransform(E[i], [map[i] EXCEPT !.rotation = map[i].rotation + angleDelta,
                                                   !.cx = cx, !.cy = cy])
     ELSE E[i]]

\* The attributes the drawing branch writes with tool t.
drawAttrs(t, start, pt, shiftKey) ==
  CASE t = "line" -> [x2 |-> pt.x, y2 |-> pt.y]
    [] t = "rect" ->
         LET w0     == pt.x - start.x
             h0     == pt.y - start.y
             size   == Max2(Abs(w0), Abs(h0))
             width  == IF shiftKey THEN size * (IF w0 < 0 THEN -1 ELSE 1) ELSE w0
             height == IF shiftKey THEN size * (IF h0 < 0 THEN -1 ELSE 1) ELSE h0
         IN  [x |-> IF width < 0 THEN start.x + width ELSE start.x,
              y |-> IF height < 0 THEN start.y + height ELSE start.y,
              width |-> Abs(width), height |-> Abs(height)]
    [] OTHER ->
         LET rx == Abs(pt.x - start.x)
             ry == Abs(pt.y - start.y)
         IN  IF shiftKey THEN [rx |-> Max2(rx, ry), ry |-> Max2(rx, ry)]
             ELSE [rx |-> rx, ry |-> ry]

\* The pending element after the drawing branch ran with tool t (the branch
\* goes by the tool, not by the kind of the element).
drawElement(el, t, start, pt, shiftKey) ==
  LET a == drawAttrs(t, start, pt, shiftKey)
  IN  CASE t = "line" /\ el.tag = "line" ->
             [el EXCEPT !.geom.x2 = a.x2, !.geom.y2 = a.y2]
        [] t = "rect" /\ el.tag = "rect" -> [el EXCEPT !.geom = a]
        [] t = "circle" /\ el.tag = "ellipse" ->
             [el EXCEPT !.geom.rx = a.rx, !.geom.ry = a.ry]
        [] t \in {"line", "rect", "circle"} -> [el EXCEPT !.other[t] = a]
        [] OTHER -> el

\* handleMouseMove (a listener of window, so it runs in every view).  The
\* shift key is read for the rectangle and circle tools only (the snapping of
\* a line is not modelled: the model draws lines without the shift key).
handleMouseMove(p, shiftKey) ==
  LET pt     == getSVGPoint(p)
      vertex == dragMode = "vertex" /\ isDraggingPoint # NoPoint
                  /\ Len(selectedElements) = 1
      move   == dragMode = "move" /\ Len(selectedElements) > 0 /\ startPoint # Null
      rotate == dragMode = "rotate" /\ Len(selectedElements) > 0
                  /\ startPoint # Null /\ rotationCenter # Null
      draw   == isDrawing /\ currentDrawElement # NoElem /\ startPoint # Null
  IN  /\ IF vertex
         THEN LET el      == selectedElements[1]
                  localPt == getLocalPoint(p, el)
                  E       == [elems EXCEPT ![el] =
                                updateElementShape(@, isDraggingPoint, localPt.x, localPt.y)]
              IN  /\ BBoxExact(<< el >>, E, svg)
                  /\ didChange' = TRUE
                  /\ controlPoints' = parseControlPoints(E[el])
                  /\ selectionBBox' = updateSelectionBBox(<< el >>, E, svg)
                  /\ UNCHANGED << tool, selectedElements, dragMode, isDraggingPoint,
                                  isDrawing, startPoint, currentDrawElement,
                                  rotationCenter, startTransformsMap >>
                  /\ elems' = E
         ELSE LET E1 == IF move
                        THEN moveElements(elems, selectedElements, startTransformsMap,
                                          pt.x - startPoint.x, pt.y - startPoint.y)
                        ELSE IF rotate
                        THEN rotateElements(elems, selectedElements, startTransformsMap,
                               atan2Deg(pt.y - rotationCenter.y, pt.x - rotationCenter.x)
                                 - atan2Deg(startPoint.y - rotationCenter.y,
                                            startPoint.x - rotationCenter.x),
                               rotationCenter.x, rotationCenter.y)
                        ELSE elems
                  E2 == IF draw
                        THEN [E1 EXCEPT ![currentDrawElement] =
                                drawElement(@, tool, startPoint, pt, shiftKey)]
                        ELSE E1
              IN  /\ rotate => /\ OnAxis(Pt(pt.x - rotationCenter.x, pt.y - rotationCenter.y))
                               /\ OnAxis(Pt(startPoint.x - rotationCenter.x,
                                            startPoint.y - rotationCenter.y))
                  /\ (move \/ rotate) => BBoxExact(selectedElements, E1, svg)
                  /\ shiftKey => draw /\ tool \in {"rect", "circle"}
                  /\ didChange' = (didChange \/ move \/ rotate \/ draw)
                  /\ selectionBBox' = IF move \/ rotate
                                      THEN updateSelectionBBox(selectedElements, E1, svg)
                                      ELSE selectionBBox
                  /\ UNCHANGED << tool, selectedElements, controlPoints, dragMode,
                                  isDraggingPoint, isDrawing, startPoint,
                                  currentDrawElement, rotationCenter, startTransformsMap >>
                  /\ elems' = E2
      /\ UNCHANGED << appVars, items, histVars, svg >>
      /\ op' = "mouseMove"

-----------------------------------------------------------------------------
(* Pointer-up                                                               *)

\* A variant of isTiny that rejects a line of length zero only; the tiny-line
\* rejection does not hold of it.
isTinyZeroLength(el) ==
  \/ el.tag = "ellipse" /\ (el.geom.rx < Unit \/ el.geom.ry < Unit)
  \/ el.tag = "rect" /\ el.geom.width < Unit
  \/ el.tag = "line" /\ el.geom.x1 = el.geom.x2 /\ el.geom.y1 = el.geom.y2

isTiny(el) ==
  \/ el.tag = "ellipse" /\ (el.geom.rx < Unit \/ el.geom.ry < Unit)
  \/ el.tag = "rect" /\ el.geom.width < Unit
  \/ el.tag = "line" /\ Abs(el.geom.x1 - el.geom.x2) < Unit
                     /\ Abs(el.geom.y1 - el.geom.y2) < Unit

\* A variant of handleMouseUp that leaves the tool as it is when it keeps the
\* drawn shape; the release of a kept shape does not hold of it.
handleMouseUpKeepTool ==
  LET dragged == dragMode # "none"
      commit1 == dragged /\ didChange
      h1      == IF commit1
                 THEN addToHistory(history, historyIndex, historyIndex,
                                   getCurrentSVGString(svg, elems))
                 ELSE << history, historyIndex >>
      box1    == IF commit1 THEN updateSelectionBBox(selectedElements, elems, svg)
                 ELSE selectionBBox
      drawn   == isDrawing /\ currentDrawElement # NoElem
      el      == currentDrawElement
      keep    == drawn /\ ~isTiny(elems[el])
      svg2    == IF drawn /\ ~keep THEN RemoveChildren(svg, << el >>) ELSE svg
      h2      == IF keep
                 THEN addToHistory(h1[1], h1[2], historyIndex,
                                   getCurrentSVGString(svg, elems))
                 ELSE h1
  IN  /\ commit1 => BBoxExact(selectedElements, elems, svg)
      /\ keep => BBoxExact(<< el >>, elems, svg)
      /\ dragMode' = "none"
      /\ isDraggingPoint' = IF dragged THEN NoPoint ELSE isDraggingPoint
      /\ didChange' = IF commit1 THEN FALSE ELSE didChange
      /\ isDrawing' = FALSE
      /\ currentDrawElement' = IF isDrawing THEN NoElem ELSE currentDrawElement
      /\ selectedElements' = IF keep THEN << el >> ELSE selectedElements
      /\ controlPoints' = IF keep THEN parseControlPoints(elems[el]) ELSE controlPoints
      /\ selectionBBox' = IF keep THEN updateSelectionBBox(<< el >>, elems, svg) ELSE box1
      /\ tool' = tool
      /\ history' = h2[1]
      /\ historyIndex' = h2[2]
      /\ HistoryBound
      /\ svg' = svg2
      /\ UNCHANGED << appVars, items, startPoint, rotationCenter, startTransformsMap >>
      /\ elems' = Collect(elems)
      /\ op' = "mouseUp"

\* handleMouseUp (a listener of window).  Both calls of addToHistory use the
\* historyIndex the handler closed over.
handleMouseUp ==
  LET dragged == dragMode # "none"
      commit1 == dragged /\ didChange
      h1      == IF commit1
                 THEN addToHistory(history, historyIndex, historyIndex,
                                   getCurrentSVGString(svg, elems))
                 ELSE << history, historyIndex >>
      box1    == IF commit1 THEN updateSelectionBBox(selectedElements, elems, svg)
                 ELSE selectionBBox
      drawn   == isDrawing /\ currentDrawElement # NoElem
      el      == currentDrawElement
      keep    == drawn /\ ~isTiny(elems[el])
      svg2    == IF drawn /\ ~keep THEN RemoveChildren(svg, << el >>) ELSE svg
      h2      == IF keep
                 THEN addToHistory(h1[1], h1[2], historyIndex,
                                   getCurrentSVGString(svg, elems))
                 ELSE h1
  IN  /\ commit1 => BBoxExact(selectedElements, elems, svg)
      /\ keep => BBoxExact(<< el >>, elems, svg)
      /\ dragMode' = "none"
      /\ isDraggingPoint' = IF dragged THEN NoPoint ELSE isDraggingPoint
      /\ didChange' = IF commit1 THEN FALSE ELSE didChange
      /\ isDrawing' = FALSE
      /\ currentDrawElement' = IF isDrawing THEN NoElem ELSE currentDrawElement
      /\ selectedElements' = IF keep THEN << el >> ELSE selectedElements
      /\ controlPoints' = IF keep THEN parseControlPoints(elems[el]) ELSE controlPoints
      /\ selectionBBox' = IF keep THEN updateSelectionBBox(<< el >>, elems, svg) ELSE box1
      /\ tool' = IF keep THEN "select" ELSE tool
      /\ history' = h2[1]
      /\ historyIndex' = h2[2]
      /\ HistoryBound
      /\ svg' = svg2
      /\ UNCHANGED << appVars, items, startPoint, rotationCenter, startTransformsMap >>
      /\ elems' = Collect(elems)
      /\ op' = "mouseUp"

-----------------------------------------------------------------------------
(* Double click                                                             *)

\* A variant of handleDoubleClick that edits the text whatever the active
\* tool is.
handleDoubleClickAnyTool(target, answer) ==
  /\ InEditor
  /\ svg # Null
  /\ Includes(svg.children, target)
  /\ Hittable(elems[target])
  /\ IF elems[target].tag = "text"
          /\ answer # << >> /\ answer[1] # elems[target].text
     THEN LET E == [elems EXCEPT ![target].text = answer[1]]
          IN  /\ Commit(svg, E)
              /\ IF selectedElements = << target >>
                 THEN /\ controlPoints' = parseControlPoints(E[target])
                      /\ selectionBBox' = updateSelectionBBox(<< target >>, E, svg)
                 ELSE UNCHANGED << controlPoints, selectionBBox >>
              /\ UNCHANGED << tool, selectedElements, refVars, svg >>
              /\ elems' = E
     ELSE UNCHANGED << uiVars, histVars, refVars, svg, elems >>
  /\ UNCHANGED << appVars, items >>
  /\ op' = "doubleClick"

\* handleDoubleClick on element target; answer: what prompt() returned,
\* << >> for a cancelled prompt and << t >> for text t.
handleDoubleClick(target, answer) ==
  /\ InEditor
  /\ svg # Null
  /\ Includes(svg.children, target)
  /\ Hittable(elems[target])
  /\ IF tool = "select" /\ elems[target].tag = "text"
          /\ answer # << >> /\ answer[1] # elems[target].text
     THEN LET E == [elems EXCEPT ![target].text = answer[1]]
          IN  /\ Commit(svg, E)
              /\ IF selectedElements = << target >>
                 THEN /\ controlPoints' = parseControlPoints(E[target])
                      /\ selectionBBox' = updateSelectionBBox(<< target >>, E, svg)
                 ELSE UNCHANGED << controlPoints, selectionBBox >>
              /\ UNCHANGED << tool, selectedElements, refVars, svg >>
              /\ elems' = E
     ELSE UNCHANGED << uiVars, histVars, refVars, svg, elems >>
  /\ UNCHANGED << appVars, items >>
  /\ op' = "doubleClick"

-----------------------------------------------------------------------------
(* The state machine                                                        *)

NoElems == [i \in Ids |-> Null]

\* The handlers that call addToHistory.
EditOps == { "mouseUp", "mouseDownText", "doubleClick", "delete", "toggleDash",
             "strokeWidth" }

\* The observer right after an ingestion: no edit, undo or redo yet.
FreshTrail ==
  [phase |-> "edit", edits |-> 0, undos |-> 0, redos |-> 0, doc |-> Null, index |-> 0]

\* The observer after the step: it follows a run of committed edits, then
\* undos, then redos that starts at an ingestion, and leaves (phase "off") on
\* anything else.  doc and index: the serialization and the index right after
\* the last committed edit.
Observed ==
  LET off == [trail EXCEPT !.phase = "off"]
  IN  CASE op' \in {"generated", "loadHistoryItem"} /\ svgContent' # svgContent ->
             IF InEditor' /\ history' # << >> THEN FreshTrail ELSE off
        [] trail.phase = "off" -> trail
        [] op' = "undo" ->
             IF trail.phase \in {"edit", "undo"} /\ trail.undos < trail.edits
             THEN [trail EXCEPT !.phase = "undo", !.undos = @ + 1]
             ELSE off
        [] op' = "redo" ->
             IF trail.phase \in {"undo", "redo"} /\ trail.undos = trail.edits
                  /\ trail.redos < trail.edits
             THEN [trail EXCEPT !.phase = "redo", !.redos = @ + 1]
             ELSE off
        [] op' \in EditOps /\ historyIndex' > historyIndex ->
             IF trail.phase = "edit"
             THEN [trail EXCEPT !.edits = @ + 1,
                                !.doc = getCurrentSVGString(svg', elems'),
                                !.index = historyIndex']
             ELSE off
        [] OTHER -> IF trail.phase = "edit" THEN trail ELSE off

\* The observer while it follows nothing.
NoGesture == [kind |-> "none"]

\* The observer of gestures after the step.  A drawing gesture starts at a
\* pointer-down with a drawing tool while no gesture is active, goes on with
\* pointer-moves and ends at the release; any other handler in between ends
\* the observation.  doc: the serialization before the pointer-down.  Right
\* after the release the observer holds what the release started from: the
\* pending shape and its identity, the tool, the history and the index.
\* A pointer-down with the select tool (observed by HandleDown) is followed
\* into the pointer-move that comes right after it.
\* A rotate gesture is followed from the pointer-down on the rotate handle
\* through its pointer-moves, with the centre of the bounding box, the
\* selection and the transforms of the selected shapes at the pointer-down.
\* Right after a delete it holds the deleted shapes (live: they were shapes
\* of the live document), and it keeps them through an undo that follows.
\* A generation attempt is followed from handleGenerate through its failure
\* to the handler that clears the error, with what the editor showed and
\* held before the attempt.
Followed ==
  CASE op' = "mouseDownDraw" /\ isDrawing' /\ ~isDrawing /\ dragMode = "none" ->
         [kind |-> "draw", doc |-> getCurrentSVGString(svg, elems)]
    [] op' = "mouseMove" /\ gesture.kind = "draw" -> gesture
    [] op' = "mouseMove" /\ gesture.kind = "pressed" ->
         [gesture EXCEPT !.kind = "dragged"]
    [] op' = "mouseUp" /\ gesture.kind = "pressed" ->
         [gesture EXCEPT !.kind = "clicked"]
    [] op' = "mouseUp" /\ gesture.kind = "draw" ->
         [kind |-> "released", doc |-> gesture.doc, id |-> currentDrawElement,
          shape |-> elems[currentDrawElement], tool |-> tool,
          history |-> history, historyIndex |-> historyIndex]
    [] op' = "mouseDownRotate" ->
         [kind |-> "rotate", cx |-> selectionBBox.cx, cy |-> selectionBBox.cy,
          selection |-> selectedElements,
          map |-> [i \in Range(selectedElements) |-> getElementTransform(elems[i])]]
    [] op' = "mouseMove" /\ gesture.kind = "rotate" -> gesture
    [] op' = "delete" ->
         [kind |-> "deleted",
          live |-> svg # Null /\ Range(selectedElements) \subseteq Range(svg.children),
          shapes |-> [k \in 1 .. Len(selectedElements) |-> elems[selectedElements[k]]]]
    [] op' = "undo" /\ gesture.kind = "deleted" -> [gesture EXCEPT !.kind = "undeleted"]
    [] op' = "generate" ->
         [kind |-> "attempt", doc |-> getCurrentSVGString(svg, elems),
          history |-> history, historyIndex |-> historyIndex,
          svgContent |-> svgContent, items |-> items]
    [] op' = "generateFailed" /\ gesture.kind = "attempt" ->
         [gesture EXCEPT !.kind = "failed"]
    [] op' = "loadHistoryItem" /\ gesture.kind = "failed" ->
         [gesture EXCEPT !.kind = "dismissed"]
    [] OTHER -> NoGesture

\* The state after the first render of App and DrawingCanvas.
Mounted ==
  /\ isLoading = FALSE
  /\ error = FALSE
  /\ svgContent = Null
  /\ items = << >>
  /\ apiKey \in BOOLEAN
  /\ tool = "select"
  /\ selectedElements = << >>
  /\ controlPoints = << >>
  /\ selectionBBox = Null
  /\ history = << >>
  /\ historyIndex = -1
  /\ dragMode = "none"
  /\ isDraggingPoint = NoPoint
  /\ isDrawing = FALSE
  /\ startPoint = Null
  /\ currentDrawElement = NoElem
  /\ didChange = FALSE
  /\ rotationCenter = Null
  /\ startTransformsMap = << >>
  /\ svg = Null
  /\ elems = NoElems
  /\ op = "init"
  /\ events = 0
  /\ trail = [FreshTrail EXCEPT !.phase = "off"]
  /\ gesture = NoGesture

Init ==
  /\ Mounted
  /\ response = << >>
  /\ extracted = Null

\* The editor right after App generated markup doc and the canvas ingested it
\* (Init, GenerateStart, GenerateSuccess(doc)), with no event counted yet.
Editing(doc) ==
  LET m   == Normalised(doc)
      ids == NewIds(Len(m.children), {})
  IN  /\ isLoading = FALSE
      /\ error = FALSE
      /\ svgContent = doc
      /\ items = << doc >>
      /\ apiKey = TRUE
      /\ response = << >>
      /\ extracted = Null
      /\ tool = "select"
      /\ selectedElements = << >>
      /\ controlPoints = << >>
      /\ selectionBBox = Null
      /\ history = << m >>
      /\ historyIndex = 0
      /\ dragMode = "none"
      /\ isDraggingPoint = NoPoint
      /\ isDrawing = FALSE
      /\ startPoint = Null
      /\ currentDrawElement = NoElem
      /\ didChange = FALSE
      /\ rotationCenter = Null
      /\ startTransformsMap = << >>
      /\ svg = ParsedTree(m, ids)
      /\ elems = ParsedElems(m, ids, NoElems)
      /\ op = "generated"
      /\ events = 0
      /\ trail = FreshTrail
      /\ gesture = NoGesture

\* The event loop takes one event and runs its handler to completion; n:
\* the number of events the behaviours of the model are followed for.
Handle(n, handler) ==
  /\ events < n
  /\ handler
  /\ events' = events + 1
  /\ trail' = Observed
  /\ gesture' = Followed
  /\ UNCHANGED << response, extracted >>

\* A pointer-down with the select tool, observed with its target, its
\* modifier and the selection it started from.
HandleDown(n, p, target, isCtrl) ==
  /\ events < n
  /\ handleMouseDownSelect(p, target, isCtrl)
  /\ events' = events + 1
  /\ trail' = Observed
  /\ gesture' = [kind |-> "pressed", target |-> target, ctrl |-> isCtrl,
                 selection |-> selectedElements]
  /\ UNCHANGED << response, extracted >>

\* Pointer positions a pointer-move may report: those of P, or, while a
\* rotate gesture is active, the four points at distance 16 from the pivot
\* along the axes.
MovePoints(P) ==
  IF dragMode = "rotate" /\ rotationCenter # Null
  THEN { Pt(rotationCenter.x + d[1], rotationCenter.y + d[2]) :
           d \in { << 16, 0 >>, << 0, 16 >>, << -16, 0 >>, << 0, -16 >> } }
  ELSE P

\* The inputs of the handlers: pointer-down and pointer-move positions, the
\* state of the ctrl and shift keys, prompt answers, stroke widths, tools.
Inputs(down, move, ctrl, shift, texts, widths, tools) ==
  [down |-> down, move |-> move, ctrl |-> ctrl, shift |-> shift, texts |-> texts,
   widths |-> widths, tools |-> tools]

\* The handlers of the canvas, with inputs I.
Canvas(n, I) ==
  \/ \E t \in I.tools : Handle(n, setTool(t))
  \/ Handle(n, handleUndo)
  \/ Handle(n, handleRedo)
  \/ Handle(n, handleDelete)
  \/ Handle(n, handleToggleDash)
  \/ \E w \in I.widths : Handle(n, handleChangeStrokeWidth(w))
  \/ \E p \in I.down : Handle(n, handleMouseDownDraw(p))
  \/ \E p \in I.down, t \in I.texts : Handle(n, handleMouseDownText(p, t))
  \/ \E p \in I.down, target \in Ids \cup {NoElem}, isCtrl \in I.ctrl :
       HandleDown(n, p, target, isCtrl)
  \/ \E p \in I.down : Handle(n, handleBBoxMouseDown(p))
  \/ Handle(n, handleRotateMouseDown)
  \/ \E idx \in 0 .. 2 : Handle(n, handleVertexMouseDown(idx))
  \/ \E p \in MovePoints(I.move), shiftKey \in I.shift :
       Handle(n, handleMouseMove(p, shiftKey))
  \/ Handle(n, handleMouseUp)
  \/ \E target \in Ids, t \in I.texts : Handle(n, handleDoubleClick(target, << t >>))
  \/ \E target \in Ids : Handle(n, handleDoubleClick(target, << >>))

\* The handlers of select, move and draw gestures with undo, redo and one
\* style command.
Gestures(n, I) ==
  \/ \E t \in I.tools : Handle(n, setTool(t))
  \/ Handle(n, handleUndo)
  \/ Handle(n, handleRedo)
  \/ Handle(n, handleToggleDash)
  \/ \E p \in I.down : Handle(n, handleMouseDownDraw(p))
  \/ \E p \in I.down, target \in Ids :
       HandleDown(n, p, target, FALSE)
  \/ \E p \in I.move : Handle(n, handleMouseMove(p, FALSE))
  \/ Handle(n, handleMouseUp)

\* The handlers of a vertex drag.
VertexDrag(n, I) ==
  \/ \E p \in I.down, target \in Ids :
       HandleDown(n, p, target, FALSE)
  \/ \E idx \in 0 .. 2 : Handle(n, handleVertexMouseDown(idx))
  \/ \E p \in I.move : Handle(n, handleMouseMove(p, FALSE))
  \/ Handle(n, handleMouseUp)

\* The handlers around a drawing gesture.
Drawing(n, I) ==
  \/ \E t \in I.tools : Handle(n, setTool(t))
  \/ Handle(n, handleUndo)
  \/ \E p \in I.down : Handle(n, handleMouseDownDraw(p))
  \/ \E p \in I.down, target \in Ids :
       HandleDown(n, p, target, FALSE)
  \/ \E p \in I.move, shiftKey \in I.shift : Handle(n, handleMouseMove(p, shiftKey))
  \/ Handle(n, handleMouseUp)

\* The handlers of move and rotate gestures on the selection overlay.
Rotating(n, I) ==
  \/ \E p \in I.down, target \in Ids :
       HandleDown(n, p, target, FALSE)
  \/ \E p \in I.down : Handle(n, handleBBoxMouseDown(p))
  \/ Handle(n, handleRotateMouseDown)
  \/ \E p \in MovePoints(I.move) : Handle(n, handleMouseMove(p, FALSE))
  \/ Handle(n, handleMouseUp)
  \/ Handle(n, handleUndo)

\* The handlers of selection, style commands, delete, undo and redo.
Styling(n, I) ==
  \/ \E p \in I.down, target \in Ids \cup {NoElem}, isCtrl \in I.ctrl :
       HandleDown(n, p, target, isCtrl)
  \/ Handle(n, handleMouseUp)
  \/ Handle(n, handleToggleDash)
  \/ \E w \in I.widths : Handle(n, handleChangeStrokeWidth(w))
  \/ Handle(n, handleDelete)
  \/ Handle(n, handleUndo)
  \/ Handle(n, handleRedo)

\* The handlers of selection and move gestures.
Moving(n, I) ==
  \/ \E p \in I.down, target \in Ids \cup {NoElem}, isCtrl \in I.ctrl :
       HandleDown(n, p, target, isCtrl)
  \/ \E p \in I.down : Handle(n, handleBBoxMouseDown(p))
  \/ \E p \in I.move : Handle(n, handleMouseMove(p, FALSE))
  \/ Handle(n, handleMouseUp)
  \/ Handle(n, handleUndo)

\* The handlers of App, with generated markups M.
App(n, M) ==
  \/ \E v \in BOOLEAN : Handle(n, handleApiKeyChange(v))
  \/ Handle(n, GenerateRefused)
  \/ Handle(n, GenerateStart)
  \/ \E m \in M : Handle(n, GenerateSuccess(m))
  \/ Handle(n, GenerateFail)
  \/ \E i \in 1 .. MaxItems : Handle(n, loadHistoryItem(i))

\* The response texts of at most n tokens.
Texts(n) == UNION { [1 .. k -> Tokens] : k \in 0 .. n }

InitExtract ==
  /\ Mounted
  /\ response \in Texts(MaxText)
  /\ extracted = Null

NextExtract == generateGeometrySvg

SpecExtract == InitExtract /\ [][NextExtract]_vars

\* Markups the generation service may return.
DocA == Markup("svg", Null, Null, << 0, 0, 500, 500 >>, << Rect(0, 0, 2 * Unit, 2 * Unit) >>)
DocB == Markup("svg", [num |-> 300, unit |-> ""], [num |-> 200, unit |-> ""], Null,
               << Rect(0, 0, 2 * Unit, 2 * Unit), Line(0, 0, 2 * Unit, 0) >>)
NotSvg == Markup("parsererror", Null, Null, Null, << >>)

\* The program from its construction.
Next ==
  \/ App(MaxEvents, {DocA, DocB, NotSvg})
  \/ Canvas(MaxEvents,
            Inputs({At(0, 0)}, {At(0, 0), At(2, 2)}, BOOLEAN, BOOLEAN, {"", "A"}, {4},
                   {"select", "rect", "text"}))

Spec == Init /\ [][Next]_vars

\* The editor from a freshly ingested document.
InitEdit == Editing(DocA)

NextEdit ==
  Canvas(MaxEvents,
         Inputs({At(0, 0)}, {At(0, 0), At(2, 2)}, BOOLEAN, {FALSE}, {"", "A"}, {4},
                {"select", "rect", "text"}))

SpecEdit == InitEdit /\ [][NextEdit]_vars

\* Longer behaviours of fewer handlers, from the same state.
NextGesture ==
  Gestures(MaxEvents + 2,
           Inputs({At(0, 0)}, {At(0, 0), At(2, 2)}, {FALSE}, {FALSE}, {}, {},
                  {"select", "rect"}))

SpecGesture == InitEdit /\ [][NextGesture]_vars

\* Drawing with the line, rectangle and circle tools from (10, 10): to
\* (10.5, 10.3), to (12, 10.5), to (10.5, 12) and to (12, 12).
NextDraw ==
  Drawing(MaxEvents + 1,
          Inputs({At(10, 10)},
                 {Pt(10 * Unit + Unit \div 2, 10 * Unit + Unit \div 3),
                  Pt(12 * Unit, 10 * Unit + Unit \div 2),
                  Pt(10 * Unit + Unit \div 2, 12 * Unit),
                  At(12, 12)},
                 {FALSE}, BOOLEAN, {}, {}, {"select", "line", "rect", "circle"}))

SpecDraw == InitEdit /\ [][NextDraw]_vars

\* Moves and rotations of the square {0, 0, 100, 100}.
DocSquare == Markup("svg", Null, Null, << 0, 0, 500, 500 >>,
                    << Rect(0, 0, 100 * Unit, 100 * Unit) >>)

InitSquare == Editing(DocSquare)

NextRotate ==
  Rotating(MaxEvents + 2,
           Inputs({At(50, 50)}, {At(50, 50), At(60, 50)}, {FALSE}, {FALSE}, {}, {}, {}))

SpecRotate == InitSquare /\ [][NextRotate]_vars

\* Selections and commands on a figure of three solid shapes.
DocThree ==
  Markup("svg", Null, Null, << 0, 0, 500, 500 >>,
         << Rect(0, 0, 2 * Unit, 2 * Unit), Line(0, 0, 2 * Unit, 0),
            Ellipse(4 * Unit, 4 * Unit, 2 * Unit, 2 * Unit) >>)

InitThree == Editing(DocThree)

NextStyle ==
  Styling(MaxEvents, Inputs({At(0, 0)}, {}, BOOLEAN, {FALSE}, {}, {1, 4}, {}))

SpecStyle == InitThree /\ [][NextStyle]_vars

\* Selections and move gestures on the figure of three shapes.
NextMove ==
  Moving(MaxEvents, Inputs({At(0, 0)}, {At(0, 0), At(2, 2)}, BOOLEAN, {FALSE}, {}, {}, {}))

SpecMove == InitThree /\ [][NextMove]_vars

\* The handlers of selection and of vertex, move and rotate gestures.
Reshaping(n, I) ==
  \/ \E p \in I.down, target \in Ids :
       HandleDown(n, p, target, FALSE)
  \/ \E idx \in 0 .. 2 : Handle(n, handleVertexMouseDown(idx))
  \/ \E p \in I.down : Handle(n, handleBBoxMouseDown(p))
  \/ Handle(n, handleRotateMouseDown)
  \/ \E p \in MovePoints(I.move) : Handle(n, handleMouseMove(p, FALSE))
  \/ Handle(n, handleMouseUp)

\* Gestures on a quarter disc: "M 0 0 L 40 0 Q 40 40 0 40 Z".
DocCurve ==
  Markup("svg", Null, Null, << 0, 0, 500, 500 >>,
         << Path(<< MoveTo(0, 0), LineTo(40 * Unit, 0),
                    QuadTo(40 * Unit, 40 * Unit, 0, 40 * Unit), ClosePath >>) >>)

InitCurve == Editing(DocCurve)

NextCurve ==
  Reshaping(MaxEvents,
            Inputs({At(20, 20)}, {At(20, 20), At(60, 20), At(40, 60)},
                   {FALSE}, {FALSE}, {}, {}, {}))

SpecCurve == InitCurve /\ [][NextCurve]_vars

\* Gestures on a path of two strokes: "M 0 0 L 40 0 M 0 40 L 40 40".
DocStrokes ==
  Markup("svg", Null, Null, << 0, 0, 500, 500 >>,
         << Path(<< MoveTo(0, 0), LineTo(40 * Unit, 0),
                    MoveTo(0, 40 * Unit), LineTo(40 * Unit, 40 * Unit) >>) >>)

InitStrokes == Editing(DocStrokes)

SpecStrokes == InitStrokes /\ [][NextCurve]_vars

\* Vertex drags of one rectangle.
DocRect == Markup("svg", Null, Null, << 0, 0, 500, 500 >>, << Rect(10 * Unit, 10 * Unit, 50 * Unit, 50 * Unit) >>)

InitRect == Editing(DocRect)

NextRect ==
  VertexDrag(MaxEvents + 2,
             Inputs({At(10, 10)},
                    {At(80, 10), At(10, 80), At(0, 0), At(60, 60), At(30, 30)},
                    {FALSE}, {FALSE}, {}, {}, {}))

SpecRect == InitRect /\ [][NextRect]_vars

-----------------------------------------------------------------------------
(* Properties                                                               *)

\* C1: in every reachable state the history index is valid: the snapshot
\* sequence is empty and the index is -1, or 0 <= index <= length - 1.
C1_IndexValid ==
  \/ history = << >> /\ historyIndex = -1
  \/ history # << >> /\ historyIndex \in 0 .. Len(history) - 1

\* C2: after N committed edits on a freshly ingested document, N undos and
\* then N redos leave the serialization of the live document as it was right
\* after the Nth edit, and the index at the value it had then.
C2_UndoRedoRoundTrip ==
  (trail.phase = "redo" /\ trail.redos = trail.edits) =>
    /\ getCurrentSVGString(svg, elems) = trail.doc
    /\ historyIndex = trail.index

\* A step in which a handler committed to the history.
Committed == op' \in EditOps /\ historyIndex' > historyIndex

\* C3: a new edit committed after undoing discards the snapshots after the
\* index: the snapshots up to the index stay, the new one is the last one and
\* the index is length - 1 (so that redo has nothing to restore).
C3_Truncation ==
  [][(Committed /\ historyIndex >= 0 /\ historyIndex < Len(history) - 1) =>
       /\ Len(history') = historyIndex + 2
       /\ SubSeq(history', 1, historyIndex + 1) = SubSeq(history, 1, historyIndex + 1)
       /\ historyIndex' = Len(history') - 1]_vars

\* C4: each completed edit appends exactly one snapshot and advances the
\* index by exactly 1, and no pointer-move appends a snapshot.
C4_OneSnapshotPerEdit ==
  [][/\ Committed => /\ historyIndex' = historyIndex + 1
                     /\ Len(history') = Min2(historyIndex + 1, Len(history)) + 1
     /\ op' = "mouseMove" => UNCHANGED << history, historyIndex >>]_vars

\* C5: a pointer-up that ends a move, rotate or vertex drag commits only if
\* the gesture changed the document: the snapshot it appends is never
\* identical to the snapshot the index was at.
C5_NoIdleCommit ==
  [][(op' = "mouseUp" /\ dragMode # "none" /\ ~isDrawing
        /\ historyIndex' > historyIndex /\ historyIndex \in 0 .. Len(history) - 1) =>
       history'[Len(history')] # history[historyIndex + 1]]_vars

\* The parts of the state an undo or a redo may change.
restored == << svg, elems, history, historyIndex, selectedElements, controlPoints,
               selectionBBox >>

\* C6: undo when index <= 0 and redo when index = length - 1 leave the live
\* document, the snapshots, the index, the selection, the control points and
\* the bounding box unchanged.
C6_NoOpFrame ==
  [][(\/ op' = "undo" /\ historyIndex <= 0
      \/ op' = "redo" /\ historyIndex = Len(history) - 1) =>
       UNCHANGED restored]_vars

\* A redo on the last snapshot was handled with shapes selected: it restored
\* nothing.
C6_Witness ==
  /\ op = "redo"
  /\ Len(history) >= 2
  /\ historyIndex = Len(history) - 1
  /\ selectedElements # << >>

\* C7: a successful undo or redo replaces the live document by the snapshot
\* at the new index in one step, leaves selection, control points and
\* bounding box empty, and changes the index only, not the snapshots.
C7_Restore ==
  [][(\/ op' = "undo" /\ historyIndex > 0
      \/ op' = "redo" /\ historyIndex < Len(history) - 1) =>
       /\ history' = history
       /\ historyIndex' = IF op' = "undo" THEN historyIndex - 1 ELSE historyIndex + 1
       /\ getCurrentSVGString(svg', elems') = history'[historyIndex' + 1]
       /\ selectedElements' = << >>
       /\ controlPoints' = << >>
       /\ selectionBBox' = Null]_vars

\* An undo went back to a snapshot that is not the first one.
C7_Witness ==
  /\ op = "undo"
  /\ historyIndex >= 1
  /\ historyIndex < Len(history) - 1
  /\ getCurrentSVGString(svg, elems) # history[Len(history)]

\* The branches of handleMouseMove that run in the current state.
vertexActive ==
  dragMode = "vertex" /\ isDraggingPoint # NoPoint /\ Len(selectedElements) = 1
moveActive == dragMode = "move" /\ Len(selectedElements) > 0 /\ startPoint # Null
rotateActive ==
  /\ ~vertexActive
  /\ dragMode = "rotate" /\ Len(selectedElements) > 0
  /\ startPoint # Null /\ rotationCenter # Null

\* C8: a vertex edit leaves the transform fields of every shape unchanged; a
\* move or rotate pointer-move leaves the intrinsic geometry of every shape
\* unchanged.
C8_TransformIndependence ==
  [][op' = "mouseMove" =>
       \A i \in Ids :
         (elems[i] # Null /\ elems'[i] # Null) =>
           /\ vertexActive => /\ elems'[i].data = elems[i].data
                              /\ elems'[i].transform = elems[i].transform
           /\ (~vertexActive /\ (moveActive \/ rotateActive)) =>
                /\ elems'[i].geom = elems[i].geom
                /\ elems'[i].other = elems[i].other]_vars

\* C9: in a move gesture every pointer-move leaves each selected shape with
\* the translate captured at pointer-down plus (current point - start point),
\* rotation and pivot as captured, and its intrinsic geometry unchanged.
C9_UniformMove ==
  [][(op' = "mouseMove" /\ ~vertexActive /\ moveActive) =>
       \E dx \in { d * Unit : d \in -2 .. 2 }, dy \in { d * Unit : d \in -2 .. 2 } :
         \A i \in Range(selectedElements) \cap DOMAIN startTransformsMap :
           /\ elems'[i].data = [startTransformsMap[i] EXCEPT !.tx = @ + dx, !.ty = @ + dy]
           /\ elems'[i].geom = elems[i].geom
           /\ elems'[i].other = elems[i].other]_vars

\* C10: a rectangle with width > 0 and height > 0 keeps both positive
\* through every sequence of control-point edits on its two handles.
C10_RectPositive ==
  \A i \in Ids :
    (elems[i] # Null /\ elems[i].tag = "rect") =>
      elems[i].geom.width > 0 /\ elems[i].geom.height > 0

\* The top-left handle of the rectangle {10, 10, 50, 50} was dragged to a
\* point past the opposite corner (no pointer position of the model leaves
\* the rectangle as it was when the edit is applied).
C10_Witness ==
  /\ op = "mouseMove"
  /\ dragMode = "vertex"
  /\ isDraggingPoint = 0
  /\ didChange
  /\ elems[1].geom = Rect(10 * Unit, 10 * Unit, 50 * Unit, 50 * Unit).geom

\* The release of a drawing gesture was just handled.
Released == gesture.kind = "released" /\ gesture.id # NoElem

C12_TinyShape ==
  (/\ Released
   /\ \/ /\ gesture.shape.tag = "rect"
         /\ gesture.shape.geom.width < Unit \/ gesture.shape.geom.height < Unit
      \/ /\ gesture.shape.tag = "ellipse"
         /\ gesture.shape.geom.rx < Unit \/ gesture.shape.geom.ry < Unit) =>
    /\ svg # Null => ~Includes(svg.children, gesture.id)
    /\ history = gesture.history
    /\ historyIndex = gesture.historyIndex

\* The shape is not below the minimum size of its kind.
Visible(el) ==
  CASE el.tag = "rect" -> el.geom.width >= Unit /\ el.geom.height >= Unit
    [] el.tag = "ellipse" -> el.geom.rx >= Unit /\ el.geom.ry >= Unit
    [] OTHER -> \/ Abs(el.geom.x1 - el.geom.x2) >= Unit
                \/ Abs(el.geom.y1 - el.geom.y2) >= Unit

SquareRotated ==
  /\ op = "mouseMove"
  /\ dragMode = "rotate"
  /\ Len(selectedElements) = 1
  /\ selectedElements[1] \in DOMAIN startTransformsMap
  /\ startTransformsMap[selectedElements[1]] = Transform(0, 0, 0, 0, 0)
  /\ elems[selectedElements[1]].geom = Rect(0, 0, 100 * Unit, 100 * Unit).geom

\* C14: rotating the square {0, 0, 100, 100} with identity transform about
\* the pivot captured at the start of the gesture, the centre (50, 50) of its
\* bounding box, leaves its rendered centre at (50, 50): only rotation and
\* pivot change, the translate stays (0, 0).
C14_PivotStable ==
  SquareRotated =>
    LET el == elems[selectedElements[1]]
        r  == RenderedRect(TRUE, el)
    IN  /\ rotationCenter = At(50, 50)
        /\ el.data.tx = 0 /\ el.data.ty = 0
        /\ el.data.cx = 50 * Unit /\ el.data.cy = 50 * Unit
        /\ el.data.rotation \in {0, 90, 180, 270}
        /\ r[1] + r[3] = 2 * 50 * Unit
        /\ r[2] + r[4] = 2 * 50 * Unit

\* The square was rotated by 90 degrees.
C14_Witness ==
  /\ SquareRotated
  /\ elems[selectedElements[1]].data = Transform(0, 0, 90, 50 * Unit, 50 * Unit)
  /\ elems[selectedElements[1]].transform = << 0, 0, 90, 50 * Unit, 50 * Unit >>

\* One snapshot of the document of the next state is appended to the
\* snapshots up to the index, and the index advances by 1.
OneCommit ==
  /\ history' = Append(SubSeq(history, 1, Min2(historyIndex + 1, Len(history))),
                       getCurrentSVGString(svg', elems'))
  /\ historyIndex' = historyIndex + 1

C17_ControlPoints ==
  /\ Len(selectedElements) # 1 => controlPoints = << >>
  /\ selectedElements = << >> => selectionBBox = Null

\* A second shape was added to the selection of one shape: two shapes are
\* selected, with a bounding box and without control points.
C17_Witness ==
  /\ op = "mouseDownSelect"
  /\ Len(selectedElements) = 2
  /\ selectionBBox # Null
  /\ controlPoints = << >>
  /\ parseControlPoints(elems[selectedElements[1]]) # << >>

\* C18: the selection never holds a shape twice, and it keeps insertion
\* order: a pointer-down with the modifier on an unselected shape appends the
\* shape after the selected shapes, which keep their order, and a
\* pointer-down without the modifier on an unselected shape makes the
\* selection exactly that shape.
C18_Selection ==
  /\ \A i, j \in 1 .. Len(selectedElements) :
       selectedElements[i] = selectedElements[j] => i = j
  /\ (/\ gesture.kind = "pressed"
      /\ gesture.target # NoElem
      /\ ~Includes(gesture.selection, gesture.target)) =>
       selectedElements = IF gesture.ctrl
                          THEN Append(gesture.selection, gesture.target)
                          ELSE << gesture.target >>

\* A third shape was appended with the modifier to a selection of two shapes
\* that was not made in document order.
C18_Witness ==
  /\ gesture.kind = "pressed"
  /\ gesture.ctrl
  /\ Len(gesture.selection) = 2
  /\ gesture.selection[1] > gesture.selection[2]
  /\ ~Includes(gesture.selection, gesture.target)
  /\ Len(selectedElements) = 3
  /\ selectedElements[3] = gesture.target

\* The serialization of the live document after the ingestion of markup m
\* (with an svg root) into the editor.
Reingested(m) ==
  LET n   == Normalised(m)
      ids == NewIds(Len(n.children), {})
  IN  Serialize(ParsedTree(n, ids), ParsedElems(n, ids, NoElems))

\* C19: serializing the live document, ingesting that markup and serializing
\* again yields the same markup, and ingesting the result once more changes
\* nothing: width, height, viewBox and the persisted transform attributes of
\* the shapes are as they were.
C19_RoundTrip ==
  svg # Null =>
    LET m == Serialize(svg, elems)
    IN  /\ Reingested(m) = m
        /\ Reingested(Reingested(m)) = Reingested(m)
        /\ \A k \in 1 .. Len(m.children) :
             /\ Reingested(m).children[k].data = elems[svg.children[k]].data
             /\ Reingested(m).children[k].transform = elems[svg.children[k]].transform

\* The live document came from markup with a width and a height and without
\* a viewBox, and a shape of it carries a persisted transform.
C19_Witness ==
  /\ svg # Null
  /\ svgContent = DocB
  /\ svg.width = Percent100
  /\ svg.viewBox # Null
  /\ \E k \in 1 .. Len(svg.children) : elems[svg.children[k]].data # Null

\* C20: the ingestion of markup that does not parse, or whose root element
\* is not an svg element, leaves the live document installed before as it
\* was (the same elements with the same attributes) and installs no tree.
C20_RejectedIngestion ==
  [][(/\ svgContent' # svgContent
      /\ svgContent' # Null
      /\ svgContent'.root # "svg"
      /\ InEditor') =>
       IF InEditor
       THEN /\ svg' = svg
            /\ svg # Null => \A i \in Range(svg.children) : elems'[i] = elems[i]
       ELSE svg' = Null]_vars

\* Markup with another root was ingested while a figure was shown: the
\* figure is still mounted.
C20_Witness ==
  /\ op = "loadHistoryItem"
  /\ InEditor
  /\ svgContent = NotSvg
  /\ svg # Null
  /\ Len(svg.children) > 0

\* C21: a failed generation attempt leaves the current markup and the list
\* of generated items as they were, and once the error is no longer shown
\* (with the same current markup) the editor presents the live document of
\* before the attempt, with the same history at the same index.
C21_FailedGeneration ==
  /\ gesture.kind \in {"failed", "dismissed"} => items = gesture.items
  /\ gesture.kind = "failed" => svgContent = gesture.svgContent
  /\ (gesture.kind = "dismissed" /\ svgContent = gesture.svgContent) =>
       /\ getCurrentSVGString(svg, elems) = gesture.doc
       /\ history = gesture.history
       /\ historyIndex = gesture.historyIndex

lastIndexOf(text, k) ==
  IF Positions(text, k) = {} THEN 0 ELSE SetMax(Positions(text, k))

\* C23: for a response text that is not bounded by the root tags once the
\* fence markers are removed, generateGeometrySvg returns the text from the
\* first opening root tag through the end of the last closing root tag, and
\* throws when the opening or the closing tag is absent.
C23_Extraction ==
  extracted # Null =>
    LET t == Cleaned(response)
        first == indexOf(t, "<svg")
        last  == lastIndexOf(t, "</svg>")
    IN  (response # << >> /\ ~(startsWith(t, "<svg") /\ endsWith(t, "</svg>"))) =>
          IF first = 0 \/ last = 0 THEN extracted = Thrown
          ELSE extracted = Returned(SubSeq(t, first, last))

\* The handlers of a pointer-down.
PointerDowns ==
  {"mouseDownDraw", "mouseDownText", "mouseDownSelect", "mouseDownBBox",
   "mouseDownRotate", "mouseDownVertex"}

\* C24: at most one gesture is active at a time: a drag mode and the drawing
\* mode are never active together, a pointer-down that arrives while a
\* gesture is active starts no second gesture (it enters no other drag mode,
\* does not enter the drawing mode and makes no other shape the pending
\* one), and no second pending shape is added to the document.
C24_OneGesture ==
  /\ [](~(dragMode # "none" /\ isDrawing))
  /\ [][((dragMode # "none" \/ isDrawing) /\ op' \in PointerDowns) =>
          /\ dragMode' \in {dragMode, "none"}
          /\ isDrawing' => isDrawing
          /\ currentDrawElement' \in {currentDrawElement, NoElem}
          /\ (svg # Null /\ svg' # Null) =>
               Len(svg'.children) = Len(svg.children)]_vars

\* C25: after every pointer-up the interaction state is idle: no drag mode,
\* no dragged vertex, not drawing and no pending shape referenced.
C25_ReleaseIdle ==
  op = "mouseUp" =>
    /\ dragMode = "none"
    /\ isDraggingPoint = NoPoint
    /\ ~isDrawing
    /\ currentDrawElement = NoElem

\* The observed pointer-down had no modifier and its target was one of two
\* or more selected shapes.
OnMultiSelection(g) ==
  /\ g.kind \in {"pressed", "dragged"}
  /\ ~g.ctrl
  /\ Len(g.selection) >= 2
  /\ Includes(g.selection, g.target)

\* C26: a pointer-down without the modifier on a shape of a selection of two
\* or more shapes keeps the whole selection, enters move mode and captures
\* the transform of every selected shape; the pointer-move that follows
\* translates every selected shape from its captured transform by the same
\* distance.
C26_DragFromMultiSelection ==
  [][/\ (op' = "mouseDownSelect" /\ OnMultiSelection(gesture')) =>
          /\ selectedElements' = selectedElements
          /\ dragMode' = "move"
          /\ DOMAIN startTransformsMap' = Range(selectedElements)
          /\ \A i \in Range(selectedElements) :
               startTransformsMap'[i] = getElementTransform(elems[i])
     /\ (op' = "mouseMove" /\ OnMultiSelection(gesture) /\ gesture.kind = "pressed") =>
          /\ selectedElements' = gesture.selection
          /\ \A i \in Range(selectedElements) :
               /\ i \in DOMAIN startTransformsMap
               /\ elems'[i].data # Null
               /\ elems'[i].data.rotation = startTransformsMap[i].rotation
          /\ \A i, j \in Range(selectedElements) :
               /\ elems'[i].data.tx - startTransformsMap[i].tx
                    = elems'[j].data.tx - startTransformsMap[j].tx
               /\ elems'[i].data.ty - startTransformsMap[i].ty
                    = elems'[j].data.ty - startTransformsMap[j].ty]_vars

\* A drag that started on a shape of a selection of three shapes moved all
\* three by (2, 2).
C26_Witness ==
  /\ op = "mouseMove"
  /\ OnMultiSelection(gesture)
  /\ gesture.kind = "dragged"
  /\ Len(selectedElements) = 3
  /\ \A i \in Range(selectedElements) :
       /\ elems[i].data # Null
       /\ elems[i].data.tx = startTransformsMap[i].tx + 2 * Unit
       /\ elems[i].data.ty = startTransformsMap[i].ty + 2 * Unit

C28_RotateInPlace ==
  [][(/\ gesture.kind = "rotate"
      /\ op' = "mouseMove"
      /\ \E i \in Range(gesture.selection) :
           gesture.map[i].tx # 0 \/ gesture.map[i].ty # 0
      /\ selectionBBox' # Null) =>
       /\ selectionBBox'.cx = gesture.cx
       /\ selectionBBox'.cy = gesture.cy]_vars


\* The transform attribute that goes with the persisted transform fields.
Rendered(data) ==
  IF data.rotation # 0
  THEN << data.tx, data.ty, data.rotation, data.cx, data.cy >>
  ELSE << data.tx, data.ty >>

\* The shapes of the live document, of the snapshots of the history and of
\* the live document serialized and ingested again.
StoredShapes ==
  LET live == IF svg = Null THEN {}
              ELSE { elems[svg.children[k]] : k \in 1 .. Len(svg.children) }
      kept == UNION { Range(history[h].children) : h \in 1 .. Len(history) }
      back == IF svg = Null THEN {}
              ELSE Range(Reingested(Serialize(svg, elems)).children)
  IN  live \cup kept \cup back

\* C29: the transform read off a shape right after a write is the transform
\* written, a shape without persisted transform fields reads as five zeros,
\* and every shape that carries persisted transform fields, in the live
\* document, in the history and after serialization and ingestion, has the
\* transform attribute translate(tx, ty), followed by rotate(rotation, cx,
\* cy) exactly when the rotation is not 0.
C29_TransformStore ==
  \A el \in StoredShapes :
    /\ el.data = Null => getElementTransform(el) = Transform(0, 0, 0, 0, 0)
    /\ el.data # Null => el.transform = Rendered(el.data)
    /\ \A other \in StoredShapes :
         LET data == getElementTransform(other)
         IN  getElementTransform(setElementTransform(el, data)) = data

\* An undo restored a document whose shape is moved only, and the history
\* holds the snapshot in which the shape is moved and turned.
C29_Witness ==
  /\ op = "undo"
  /\ svg # Null
  /\ \E i \in Range(svg.children) :
       /\ elems[i].data # Null /\ elems[i].data.rotation = 0
       /\ elems[i].data.tx # 0
       /\ Len(elems[i].transform) = 2
  /\ \E h \in 1 .. Len(history) : \E el \in Range(history[h].children) :
       /\ el.data # Null /\ el.data.rotation # 0 /\ el.data.tx # 0
       /\ Len(el.transform) = 5

\* Path data with a command other than move, line and close.
Curved(el) ==
  /\ el # Null
  /\ el.tag = "path"
  /\ \E k \in 1 .. Len(el.geom.d) : el.geom.d[k].c \notin { "M", "L", "Z" }

\* C30: a path whose data has a command other than move, line and close
\* shows no control points when it is the selection, and no handler changes
\* its path data; selecting, moving and rotating it remain possible.
C30_CurvedPath ==
  [][/\ (svg' # Null /\ Len(selectedElements') = 1
           /\ Curved(elems'[selectedElements'[1]])) => controlPoints' = << >>
     /\ \A i \in Ids :
          (Curved(elems[i]) /\ elems'[i] # Null) => elems'[i].geom = elems[i].geom]_vars

\* Path data made of move, line and close commands only.
Straight(el) ==
  /\ el # Null
  /\ el.tag = "path"
  /\ \A k \in 1 .. Len(el.geom.d) : el.geom.d[k].c \in { "M", "L", "Z" }

\* The position in path data d of its i-th move or line command (from 0).
CommandAt(d, i) ==
  CHOOSE k \in 1 .. Len(d) :
    /\ d[k].c \in { "M", "L" }
    /\ Cardinality({ j \in 1 .. k - 1 : d[j].c \in { "M", "L" } }) = i

\* C31: a pointer-move of a vertex drag on control point i of a path made of
\* move, line and close commands replaces the end point of command i only:
\* the path data has as many commands as before, every command is of the
\* kind it was (so the close command is where it was), and every command
\* other than command i is as it was.
C31_PathVertexEdit ==
  [][(/\ op' = "mouseMove"
      /\ dragMode = "vertex"
      /\ isDraggingPoint # NoPoint
      /\ Len(selectedElements) = 1
      /\ Straight(elems[selectedElements[1]])) =>
       LET d == elems[selectedElements[1]].geom.d
           e == elems'[selectedElements[1]].geom.d
       IN  /\ Len(e) = Len(d)
           /\ \A k \in 1 .. Len(d) :
                /\ e[k].c = d[k].c
                /\ k # CommandAt(d, isDraggingPoint) => e[k] = d[k]]_vars

\* C32: a pointer-move of a vertex drag on a rectangle either changes
\* nothing of x, y, width and height (the edit is rejected: the width or the
\* height it asks for is not positive) or is accepted: on the top-left
\* handle x + width and y + height are as before, on the bottom-right handle
\* x and y are as before, and the new corner is a pointer position.  No
\* error is raised and the vertex drag goes on.
C32_RectHandles ==
  [][(/\ op' = "mouseMove"
      /\ dragMode = "vertex"
      /\ isDraggingPoint # NoPoint
      /\ Len(selectedElements) = 1
      /\ elems[selectedElements[1]].tag = "rect") =>
       LET i == selectedElements[1]
           g == elems[i].geom
           h == elems'[i].geom
       IN  /\ error' = error
           /\ dragMode' = "vertex"
           /\ isDraggingPoint' = isDraggingPoint
           /\ selectedElements' = selectedElements
           /\ \/ h = g
              \/ /\ isDraggingPoint = 0
                 /\ h.width > 0 /\ h.height > 0
                 /\ h.x + h.width = g.x + g.width
                 /\ h.y + h.height = g.y + g.height
              \/ /\ isDraggingPoint # 0
                 /\ h.width > 0 /\ h.height > 0
                 /\ h.x = g.x /\ h.y = g.y
           /\ (h = g /\ isDraggingPoint = 0) =>
                \E p \in { At(80, 10), At(10, 80), At(0, 0), At(60, 60), At(30, 30) } :
                  LET l == getLocalPoint(p, i)
                  IN  \/ g.x + g.width - l.x <= 0
                      \/ g.y + g.height - l.y <= 0
                      \/ l.x = g.x /\ l.y = g.y]_vars

\* The bottom-right handle of the rectangle {10, 10, 50, 50} was dragged to
\* (30, 30), an accepted edit, and the top-left handle was then dragged to a
\* point that leaves no positive size (the accepted top-left edits of the
\* model move x to 0).
C32_Witness ==
  /\ op = "mouseMove"
  /\ dragMode = "vertex"
  /\ isDraggingPoint = 0
  /\ elems[1].geom = Rect(10 * Unit, 10 * Unit, 20 * Unit, 20 * Unit).geom

\* No gesture is in progress.
Idle ==
  /\ dragMode = "none"
  /\ isDraggingPoint = NoPoint
  /\ ~isDrawing
  /\ currentDrawElement = NoElem

C34_DoubleClick ==
  [][(op' = "doubleClick") =>
       \/ /\ svg' = svg
          /\ elems' = elems
          /\ history' = history /\ historyIndex' = historyIndex
       \/ /\ tool = "select"
          /\ svg' = svg
          /\ \E target \in Range(svg.children) :
               /\ elems[target].tag = "text"
               /\ elems'[target].text # elems[target].text
               /\ elems' = [elems EXCEPT ![target].text = elems'[target].text]
          /\ historyIndex' = historyIndex + 1
          /\ Len(history') = Min2(historyIndex + 1, Len(history)) + 1
          /\ history'[Len(history')] = Serialize(svg', elems')
          /\ SubSeq(history', 1, Len(history') - 1)
               = SubSeq(history, 1, Len(history') - 1)]_vars

\* A double-click has replaced the text of a text shape by the empty text,
\* and the snapshot at the index is the document with the new text.
C34_Witness ==
  /\ op = "doubleClick"
  /\ svg # Null
  /\ \E k \in 1 .. Len(svg.children) :
       elems[svg.children[k]].tag = "text" /\ elems[svg.children[k]].text = ""
  /\ historyIndex + 1 = Len(history)
  /\ history[Len(history)] = Serialize(svg, elems)

\* C35: after a toggle-dash command all selected shapes have the same dash
\* state: all of them are dashed or all of them are solid.
C35_UniformDash ==
  [][(/\ op' = "toggleDash"
      /\ svg # Null
      /\ Range(selectedElements) \subseteq Range(svg.children)) =>
       \A i, j \in Range(selectedElements') :
         isDashed(elems'[i]) = isDashed(elems'[j])]_vars

\* C36: whenever no gesture is in progress and a document is installed, the
\* history index points at a snapshot and that snapshot is the serialization
\* of the live document.
C36_LiveIsSnapshot ==
  (Idle /\ svg # Null) =>
    /\ historyIndex + 1 \in 1 .. Len(history)
    /\ history[historyIndex + 1] = Serialize(svg, elems)

\* C37: every selected shape is a shape of the live document, and while a
\* move or rotate gesture is active the start-transform map refers to
\* selected shapes only.
C37_SelectionLive ==
  /\ Range(selectedElements) \subseteq
       (IF svg = Null THEN {} ELSE Range(svg.children))
  /\ dragMode \in { "move", "rotate" } =>
       DOMAIN startTransformsMap \subseteq Range(selectedElements)

\* C38: a text that generateGeometrySvg returns begins with the opening
\* root tag and ends with the closing root tag.
C38_ReturnedIsBounded ==
  (extracted # Null /\ extracted.ok) =>
    /\ startsWith(extracted.text, "<svg")
    /\ endsWith(extracted.text, "</svg>")

\* C39: the document installed by the ingestion of markup with an svg root
\* has width and height 100%, and its viewBox is the viewBox of the markup
\* or, when the markup has none, 0 0 W H with W and H the numeric width and
\* height of the markup (500 for an absent attribute).
C39_ViewBoxDefault ==
  (/\ op \in { "generated", "loadHistoryItem" }
   /\ svg # Null
   /\ svgContent # Null
   /\ svgContent.root = "svg") =>
    /\ svg.width = Percent100
    /\ svg.height = Percent100
    /\ svg.viewBox = IF svgContent.viewBox # Null THEN svgContent.viewBox
                     ELSE << 0, 0, parseSize(svgContent.width),
                             parseSize(svgContent.height) >>

=============================================================================
